---- MODULE Spec2Model ----
(***************************************************************************)
(* Orchestration core of the outreach automation services                  *)
(* (src/api/services/leads): the rate limiter of SmartSchedulerService,    *)
(* the proxy pool, the follow-back detector, the spintax renderer, the     *)
(* conversation flows, the timezone scheduler and the automation executor. *)
(* Time is the reading of datetime.now() in whole seconds since a midnight.*)
(***************************************************************************)
EXTENDS Integers, Sequences, FiniteSets, TLC

VARIABLES
    now,             \* datetime.now(), seconds since midnight of day 0
    lastOp,          \* the call made by the last step, with its arguments
    ret,             \* what that call returned (or raised)
    account_states,  \* SmartSchedulerService._account_states
    checked,         \* history: the allowed can_execute not yet followed by a record
    successes,       \* history: times of the successful records of the last hour
    relationships,   \* FollowBackDetectorService._relationships
    dm_raised,       \* history: the relationships a check has returned should_dm for
    proxies,         \* ProxyPoolService._proxies
    proxy_keys,      \* the insertion order of the keys of _proxies
    account_proxy_map, \* ProxyPoolService._account_proxy_map
    templates,       \* SpintaxService._templates
    flows,           \* ConversationFlowService._flows
    states,          \* ConversationFlowService._states
    unknown_run,     \* history: the latest inbound messages of a conversation in a
                     \* row that were detected as unknown intent
    active_contexts, \* AutomationExecutorService._active_contexts
    browser_sessions, \* the browser sessions started and not stopped: profile -> account
    next_context,    \* the number of ExecutionContext objects created so far
    task,            \* the execute_* coroutine in flight, with its suspension point
    peer,            \* a second execute_* coroutine in flight on the same event loop
    calls,           \* the number of execute_* calls made so far
    action_queue,    \* SmartSchedulerService._action_queue
    sweeps,          \* the process_timeouts coroutines, each idle or suspended in its unfollow
    scan             \* the get_24h_schedule call in progress: its loop variables

schedVars == <<account_states, checked, successes>>
followVars == <<relationships, dm_raised>>
proxyVars == <<proxies, proxy_keys, account_proxy_map>>
spinVars == <<templates>>
convVars == <<flows, states, unknown_run>>
execVars == <<active_contexts, browser_sessions, next_context, task, peer, calls>>
queueVars == <<action_queue>>
sweepVars == <<sweeps>>
tzVars == <<scan>>
vars == <<now, lastOp, ret, schedVars, followVars, proxyVars, spinVars, convVars, execVars, queueVars, sweepVars, tzVars>>

\* What the calls of the scheduler leave alone.
nonSchedVars == <<followVars, proxyVars, spinVars, convVars, execVars, queueVars, sweepVars, tzVars>>

-----------------------------------------------------------------------------
(* Bounds of the model *)

\* Hours 0..MaxHour of day 0 (and the first hour of day 1) are sampled.
MaxHour == 1
\* Clock readings sampled after each full hour: 0, Step, ..., MaxSteps*Step.
MaxSteps == 3
\* The same for the clock of the cooling runs, which samples hours 0 and 1.
MaxCoolSteps == 3
\* The clock of the daily-limit runs samples the full hours 0..MaxDailyHour of day 0
\* and the midnight that follows.
MaxDailyHour == 2
\* record_action is called directly while the daily counter is below MaxRecords.
MaxRecords == 30

-----------------------------------------------------------------------------
(* Program constants *)

SecondsPerMinute == 60
SecondsPerHour == 3600
SecondsPerDay == 86400
HoursPerDay == 24
\* RateLimitConfig.new_account_multiplier = 0.3, warming_account_multiplier = 0.6
NewAccountMultiplierTenths == 3
WarmingAccountMultiplierTenths == 6
\* AutomationExecutorService.MIN_ACTION_DELAY
MIN_ACTION_DELAY == 2

NoTime == -1     \* None in a datetime | None field

Accounts == {"acc1"}
ActionType == {"follow", "unfollow", "dm", "like", "comment", "view_profile", "scroll"}
AccountAgeCategory == {"new", "warming", "mature"}
\* The age categories the accounts of the model are registered with.
RegisteredAges == {"new", "mature"}
\* The platform every account of the model works on.
Platforms == {"instagram"}

\* The action types can_execute_action is called for: "dm" has a configured limit,
\* "comment" has none on any platform.
CalledActions == {"dm", "comment"}
\* The action types record_action is called for.
RecordedActions == {"dm"}

\* SmartSchedulerService.DEFAULT_LIMITS
RateLimitConfig(h, d, lo, hi) ==
    [hourly_limit |-> h, daily_limit |-> d,
     min_interval_seconds |-> lo, max_interval_seconds |-> hi]

DEFAULT_LIMITS ==
    [instagram |->
        [follow   |-> RateLimitConfig(20, 100, 60, 300),
         unfollow |-> RateLimitConfig(30, 150, 30, 120),
         dm       |-> RateLimitConfig(10, 50, 120, 600),
         like     |-> RateLimitConfig(50, 300, 10, 60)],
     x |->
        [follow   |-> RateLimitConfig(30, 200, 30, 180),
         dm       |-> RateLimitConfig(20, 100, 60, 300),
         like     |-> RateLimitConfig(100, 500, 5, 30)]]

\* self._rate_limits.get(platform, {}).get(action_type) is not None
HasConfig(platform, action_type) ==
    /\ platform \in DOMAIN DEFAULT_LIMITS
    /\ action_type \in DOMAIN DEFAULT_LIMITS[platform]

\* RateLimitConfig.get_limit_for_age: int(base * multiplier)
get_limit_for_age(config, age_category, period) ==
    LET base == IF period = "daily" THEN config.daily_limit ELSE config.hourly_limit
    IN  IF age_category = "new"
        THEN (base * NewAccountMultiplierTenths) \div 10
        ELSE IF age_category = "warming"
             THEN (base * WarmingAccountMultiplierTenths) \div 10
             ELSE base

-----------------------------------------------------------------------------
(* The sampled clock *)

\* The smallest configured min_interval of the called action types.
Step == 2 * SecondsPerMinute

\* The duration_minutes set_account_cooling is called with: one step of the clock,
\* so that the reading now = cooling_until is sampled.
CoolingMinutes == {Step \div SecondsPerMinute}

HourMarks == (0 .. MaxHour) \cup {HoursPerDay}

SchedTimes ==
    { h * SecondsPerHour + k * Step : h \in HourMarks, k \in 0 .. MaxSteps }
    \cup { (h + 1) * SecondsPerHour - MIN_ACTION_DELAY : h \in HourMarks }

CoolTimes == { h * SecondsPerHour + k * Step : h \in 0 .. 1, k \in 0 .. MaxCoolSteps }

DailyTimes == { h * SecondsPerHour : h \in (0 .. MaxDailyHour) \cup {HoursPerDay} }

-----------------------------------------------------------------------------
(* SmartSchedulerService *)

ZeroCounters == [a \in ActionType |-> 0]

\* AccountScheduleState(account_id, age_category) as register_account builds it
NewAccountState(age_category, t) ==
    [age_category    |-> age_category,
     hourly_actions  |-> ZeroCounters,
     daily_actions   |-> ZeroCounters,
     last_action_at  |-> [a \in ActionType |-> NoTime],
     hourly_reset_at |-> t,
     daily_reset_at  |-> t,
     is_cooling      |-> FALSE,
     cooling_until   |-> NoTime,
     cooling_reason  |-> "None"]

\* now.replace(minute=0, second=0, microsecond=0)
StartOfHour(t) == t - (t % SecondsPerHour)
\* now.replace(hour=0, minute=0, second=0, microsecond=0)
StartOfDay(t) == t - (t % SecondsPerDay)

\* _reset_counters_if_needed(state, now)
reset_counters_if_needed(state, t) ==
    LET s1 == IF t >= state.hourly_reset_at + SecondsPerHour
              THEN [state EXCEPT !.hourly_actions = ZeroCounters,
                                 !.hourly_reset_at = StartOfHour(t)]
              ELSE state
    IN  IF t >= s1.daily_reset_at + SecondsPerDay
        THEN [s1 EXCEPT !.daily_actions = ZeroCounters,
                        !.daily_reset_at = StartOfDay(t)]
        ELSE s1

\* A (allowed, reason) result; a and b are the two numbers the reason text holds.
Result(allowed, reason, a, b) ==
    [allowed |-> allowed, reason |-> reason, a |-> a, b |-> b]

\* A cooling test that still denies at now = cooling_until.
CoolingDenies_Late(state, t) ==
    state.is_cooling /\ state.cooling_until # NoTime /\ state.cooling_until >= t

\* The cooling check of can_execute_action (lines 208-213): TRUE when it denies.
CoolingDenies(state, t) ==
    state.is_cooling /\ state.cooling_until # NoTime /\ state.cooling_until > t

\* The state after the cooling check when it does not deny.
AfterCoolingCheck(state) ==
    IF state.is_cooling
    THEN [state EXCEPT !.is_cooling = FALSE, !.cooling_until = NoTime]
    ELSE state

\* An hourly test that lets one action too many through.
HourlyLimitReached_OffByOne(count, limit) == count > limit

\* The hourly test of can_execute_action (line 227)
HourlyLimitReached(count, limit) == count >= limit

\* A daily test that lets one action too many through.
DailyLimitReached_OffByOne(count, limit) == count > limit

\* The daily test of can_execute_action (line 233)
DailyLimitReached(count, limit) == count >= limit

\* can_execute_action(account_id, action_type, platform) at time t:
\* the account's state after the call and the result.
can_execute_action(state, action_type, platform, t) ==
    IF CoolingDenies(state, t)
    THEN [state |-> state,
          ret |-> Result(FALSE, "Account cooling until", state.cooling_until, 0)]
    ELSE
    LET s1 == AfterCoolingCheck(state) IN
    IF ~HasConfig(platform, action_type)
    THEN [state |-> s1, ret |-> Result(TRUE, "None", 0, 0)]
    ELSE
    LET config == DEFAULT_LIMITS[platform][action_type]
        s2 == reset_counters_if_needed(s1, t)
        hourly_count == s2.hourly_actions[action_type]
        hourly_limit == get_limit_for_age(config, s2.age_category, "hourly")
        daily_count == s2.daily_actions[action_type]
        daily_limit == get_limit_for_age(config, s2.age_category, "daily")
        last_action == s2.last_action_at[action_type]
    IN  IF HourlyLimitReached(hourly_count, hourly_limit)
        THEN [state |-> s2,
              ret |-> Result(FALSE, "Hourly limit reached", hourly_count, hourly_limit)]
        ELSE IF DailyLimitReached(daily_count, daily_limit)
        THEN [state |-> s2,
              ret |-> Result(FALSE, "Daily limit reached", daily_count, daily_limit)]
        ELSE IF last_action # NoTime /\ t - last_action < config.min_interval_seconds
        THEN [state |-> s2,
              ret |-> Result(FALSE, "Min interval not met", t - last_action,
                             config.min_interval_seconds)]
        ELSE [state |-> s2, ret |-> Result(TRUE, "None", 0, 0)]

\* record_action that counts a failed action as well
record_action_CountsFailures(state, action_type, success, t) ==
    [state EXCEPT !.last_action_at[action_type] = t,
                  !.hourly_actions[action_type] = @ + 1,
                  !.daily_actions[action_type] = @ + 1]

\* record_action(account_id, action_type, success) at time t
record_action(state, action_type, success, t) ==
    LET s1 == [state EXCEPT !.last_action_at[action_type] = t]
    IN  IF success
        THEN [s1 EXCEPT !.hourly_actions[action_type] = @ + 1,
                        !.daily_actions[action_type] = @ + 1]
        ELSE s1

\* set_account_cooling(account_id, duration_minutes, reason=None) at time t
set_account_cooling(state, duration_minutes, t) ==
    [state EXCEPT !.is_cooling = TRUE,
                  !.cooling_until = t + duration_minutes * SecondsPerMinute,
                  !.cooling_reason = "None"]

-----------------------------------------------------------------------------
(* ConversationFlowService: the flows *)

ConversationIntent ==
    { "greeting", "interest", "question", "objection", "positive", "negative",
      "request_human", "spam", "unknown" }
FlowNodeType == {"start", "message", "condition", "delay", "human_handoff", "end"}

\* FlowNode(node_type, template_id, content, delay_seconds, next_nodes, default_next);
\* has_content tells whether content is given, "None" is None.
FlowNode(node_type, template_id, has_content, delay_seconds, next_nodes, default_next) ==
    [ node_type |-> node_type, template_id |-> template_id, has_content |-> has_content,
      delay_seconds |-> delay_seconds, next_nodes |-> next_nodes,
      default_next |-> default_next ]

\* The nodes of the flow that _load_default_flows builds.
StandardNodes ==
    [ start |-> FlowNode("start", "None", FALSE, 0, << >>, "opening"),
      opening |-> FlowNode("message", "opening_friendly", FALSE, 0,
          [ positive |-> "value_prop", interest |-> "value_prop",
            question |-> "answer_question", negative |-> "polite_end",
            request_human |-> "human_handoff" ], "follow_up_1"),
      value_prop |-> FlowNode("message", "value_proposition", FALSE, 0,
          [ positive |-> "whatsapp_invite", interest |-> "whatsapp_invite",
            objection |-> "handle_objection", negative |-> "polite_end" ], "follow_up_2"),
      handle_objection |-> FlowNode("message", "objection_why_whatsapp", FALSE, 0,
          [ positive |-> "whatsapp_invite", negative |-> "polite_end" ], "whatsapp_invite"),
      answer_question |-> FlowNode("message", "None", TRUE, 0,
          [ positive |-> "value_prop", negative |-> "polite_end" ], "value_prop"),
      whatsapp_invite |-> FlowNode("message", "whatsapp_invite", FALSE, 0, << >>,
          "conversion_check"),
      conversion_check |-> FlowNode("message", "None", TRUE, 0,
          [ positive |-> "success_end", negative |-> "retry_invite" ], "end"),
      follow_up_1 |-> FlowNode("delay", "None", FALSE, SecondsPerHour, << >>,
          "follow_up_message_1"),
      follow_up_message_1 |-> FlowNode("message", "follow_up_no_reply", FALSE, 0, << >>, "end"),
      follow_up_2 |-> FlowNode("delay", "None", FALSE, SecondsPerDay, << >>,
          "follow_up_message_2"),
      follow_up_message_2 |-> FlowNode("message", "None", TRUE, 0, << >>, "end"),
      retry_invite |-> FlowNode("message", "None", TRUE, 0, << >>, "end"),
      human_handoff |-> FlowNode("human_handoff", "None", TRUE, 0, << >>, "None"),
      polite_end |-> FlowNode("message", "None", TRUE, 0, << >>, "end"),
      success_end |-> FlowNode("message", "None", TRUE, 0, << >>, "end"),
      end |-> FlowNode("end", "None", FALSE, 0, << >>, "None") ]

\* ConversationFlow(id, nodes, start_node_id)
ConversationFlow(nodes, start_node_id) == [nodes |-> nodes, start_node_id |-> start_node_id]

\* _flows after __init__
DefaultFlows == [standard_outreach |-> ConversationFlow(StandardNodes, "start")]

-----------------------------------------------------------------------------
(* History variables of the scheduler *)

NoCheck == [held |-> FALSE, hourly_reset_at |-> NoTime, daily_reset_at |-> NoTime]
NoRet == [allowed |-> TRUE, reason |-> "no call", a |-> 0, b |-> 0]

\* The successful records among `times` that fall in the window of the given
\* length that ends at t.
WithinLast(length, times, t) == { u \in times : t - u < length }

-----------------------------------------------------------------------------
(* Steps of the scheduler *)

\* The process_timeouts coroutines a run can have in flight at once.
Sweeps == {"s1", "s2"}
\* A coroutine that has not been called or has returned.
IdleSweep == [pc |-> "idle"]

\* No get_24h_schedule call is in progress.
NoScan == [pc |-> "idle"]

Init ==
    /\ now = 0
    /\ account_states = << >>
    /\ lastOp = [op |-> "init"]
    /\ ret = NoRet
    /\ checked = [acc \in Accounts |-> [a \in ActionType |-> NoCheck]]
    /\ successes = [acc \in Accounts |-> [a \in ActionType |-> {}]]
    /\ relationships = << >>
    /\ dm_raised = {}
    /\ proxies = << >>
    /\ proxy_keys = << >>
    /\ account_proxy_map = << >>
    /\ templates = << >>
    /\ flows = DefaultFlows
    /\ states = << >>
    /\ unknown_run = << >>
    /\ active_contexts = << >>
    /\ browser_sessions = << >>
    /\ next_context = 0
    /\ task = [kind |-> "none"]
    /\ peer = [kind |-> "none"]
    /\ calls = 0
    /\ action_queue = << >>
    /\ sweeps = [s \in Sweeps |-> IdleSweep]
    /\ scan = NoScan

\* The clock advances to a later sampled reading.
Tick(times) ==
    /\ \E t \in times : t > now /\ now' = t
    /\ lastOp' = [op |-> "tick"]
    /\ successes' = [acc \in Accounts |-> [a \in ActionType |->
                        WithinLast(SecondsPerHour, successes[acc][a], now')]]
    /\ ret' = NoRet
    /\ UNCHANGED <<account_states, checked>>
    /\ UNCHANGED nonSchedVars

\* register_account(account_id, created_at): each account is registered once;
\* created_at decides the age category.
RegisterAccount(acc, age_category) ==
    /\ acc \notin DOMAIN account_states
    /\ account_states' =
          [a \in DOMAIN account_states \cup {acc} |->
              IF a = acc THEN NewAccountState(age_category, now) ELSE account_states[a]]
    /\ lastOp' = [op |-> "register_account", account |-> acc]
    /\ ret' = NoRet
    /\ UNCHANGED <<now, checked, successes>>
    /\ UNCHANGED nonSchedVars

CanExecute(acc, action_type, platform) ==
    /\ lastOp' = [op |-> "can_execute", account |-> acc, action |-> action_type,
                  platform |-> platform,
                  was_cooling |-> (acc \in DOMAIN account_states
                                   /\ account_states[acc].is_cooling)]
    /\ IF acc \notin DOMAIN account_states
       THEN /\ ret' = Result(FALSE, "Account not registered", 0, 0)
            /\ UNCHANGED <<account_states, checked>>
       ELSE LET r == can_execute_action(account_states[acc], action_type, platform, now)
            IN  /\ account_states' = [account_states EXCEPT ![acc] = r.state]
                /\ ret' = r.ret
                /\ checked' =
                     IF r.ret.allowed /\ action_type \in RecordedActions
                     THEN [checked EXCEPT ![acc][action_type] =
                             [held |-> TRUE,
                              hourly_reset_at |-> r.state.hourly_reset_at,
                              daily_reset_at |-> r.state.daily_reset_at]]
                     ELSE checked
    /\ UNCHANGED <<now, successes>>
    /\ UNCHANGED nonSchedVars

\* record_action(acc, action_type, success=True), called as the executor calls it:
\* after a can_execute_action of the same account and action type that allowed it.
RecordSuccess(acc, action_type) ==
    /\ acc \in DOMAIN account_states
    /\ checked[acc][action_type].held
    /\ account_states' = [account_states EXCEPT
            ![acc] = record_action(@, action_type, TRUE, now)]
    /\ lastOp' = [op |-> "record", account |-> acc, action |-> action_type,
                  success |-> TRUE, check |-> checked[acc][action_type]]
    /\ checked' = [checked EXCEPT ![acc][action_type] = NoCheck]
    /\ successes' = [successes EXCEPT ![acc][action_type] = @ \cup {now}]
    /\ ret' = NoRet
    /\ UNCHANGED now
    /\ UNCHANGED nonSchedVars

\* record_action(acc, action_type, success=False), after an allowed check as well
RecordFailure(acc, action_type) ==
    /\ acc \in DOMAIN account_states
    /\ checked[acc][action_type].held
    /\ account_states' = [account_states EXCEPT
            ![acc] = record_action(@, action_type, FALSE, now)]
    /\ lastOp' = [op |-> "record", account |-> acc, action |-> action_type,
                  success |-> FALSE, check |-> checked[acc][action_type]]
    /\ checked' = [checked EXCEPT ![acc][action_type] = NoCheck]
    /\ ret' = NoRet
    /\ UNCHANGED <<now, successes>>
    /\ UNCHANGED nonSchedVars

SetCooling(acc, duration_minutes) ==
    /\ acc \in DOMAIN account_states
    /\ account_states' = [account_states EXCEPT
            ![acc] = set_account_cooling(@, duration_minutes, now)]
    /\ lastOp' = [op |-> "set_account_cooling", account |-> acc]
    /\ ret' = NoRet
    /\ UNCHANGED <<now, checked, successes>>
    /\ UNCHANGED nonSchedVars

SchedNext ==
    \/ Tick(SchedTimes)
    \/ \E acc \in Accounts, age \in RegisteredAges : RegisterAccount(acc, age)
    \/ \E acc \in Accounts, a \in CalledActions, p \in Platforms : CanExecute(acc, a, p)
    \/ \E acc \in Accounts, a \in RecordedActions : RecordSuccess(acc, a)
    \/ \E acc \in Accounts, a \in RecordedActions : RecordFailure(acc, a)

SpecSched == Init /\ [][SchedNext]_vars

\* The same calls with set_account_cooling among them, over the cooling clock.
CoolNext ==
    \/ Tick(CoolTimes)
    \/ \E acc \in Accounts, age \in RegisteredAges : RegisterAccount(acc, age)
    \/ \E acc \in Accounts, a \in CalledActions, p \in Platforms : CanExecute(acc, a, p)
    \/ \E acc \in Accounts, a \in RecordedActions : RecordSuccess(acc, a)
    \/ \E acc \in Accounts, d \in CoolingMinutes : SetCooling(acc, d)

SpecCooling == Init /\ [][CoolNext]_vars

\* record_action(acc, "follow", success=True) called directly, as the end-to-end
\* scenario of the daily limit calls it: record_action itself checks nothing.
RecordDirect(acc, action_type) ==
    /\ acc \in DOMAIN account_states
    /\ account_states[acc].daily_actions[action_type] < MaxRecords
    /\ account_states' = [account_states EXCEPT
            ![acc] = record_action(@, action_type, TRUE, now)]
    /\ lastOp' = [op |-> "record", account |-> acc, action |-> action_type,
                  success |-> TRUE, check |-> checked[acc][action_type]]
    /\ checked' = [checked EXCEPT ![acc][action_type] = NoCheck]
    /\ successes' = [successes EXCEPT ![acc][action_type] = @ \cup {now}]
    /\ ret' = NoRet
    /\ UNCHANGED now
    /\ UNCHANGED nonSchedVars

DailyNext ==
    \/ Tick(DailyTimes)
    \/ \E acc \in Accounts : RegisterAccount(acc, "new")
    \/ \E acc \in Accounts, p \in Platforms : CanExecute(acc, "follow", p)
    \/ \E acc \in Accounts : RecordDirect(acc, "follow")

SpecDaily == Init /\ [][DailyNext]_vars

-----------------------------------------------------------------------------
(* Claims about the rate limiter *)

Registered == DOMAIN account_states

\* The limits of a registered account for an action type configured on instagram.
HourlyLimitOf(acc, a) ==
    get_limit_for_age(DEFAULT_LIMITS["instagram"][a], account_states[acc].age_category,
                      "hourly")
DailyLimitOf(acc, a) ==
    get_limit_for_age(DEFAULT_LIMITS["instagram"][a], account_states[acc].age_category,
                      "daily")

C3_Scenario ==
    /\ lastOp.op = "can_execute"
    /\ lastOp.action = "follow"
    /\ lastOp.platform = "instagram"
    /\ lastOp.account \in Registered
    /\ ~lastOp.was_cooling
    /\ account_states[lastOp.account].age_category = "new"
    /\ account_states[lastOp.account].daily_actions["follow"] = 30

\* C3 as claimed: after 30 record(acc1, FOLLOW, True) the call returns exactly
\* (False, "Daily limit reached (30/30)").
C3_DailyDenial ==
    C3_Scenario => ret = Result(FALSE, "Daily limit reached", 30, 30)

\* C3 as amended: the call is denied; the reason is "Daily limit reached (30/30)"
\* when fewer than 6 of the records are counted in the current hourly window, and
\* "Hourly limit reached (n/6)" when n >= 6 of them are, the hourly limit being
\* tested first.
C3_DenialReason ==
    C3_Scenario =>
        LET n == account_states[lastOp.account].hourly_actions["follow"]
        IN  IF n >= 6
            THEN ret = Result(FALSE, "Hourly limit reached", n, 6)
            ELSE ret = Result(FALSE, "Daily limit reached", 30, 30)

\* C3 witness: the daily denial with 30 of 30, after the hourly counter was reset.
C3_Witness ==
    /\ C3_Scenario
    /\ ret = Result(FALSE, "Daily limit reached", 30, 30)
    /\ account_states[lastOp.account].hourly_actions["follow"] = 0

\* C4 as claimed: every increment of a counter comes after an allowed can_execute
\* of the same account and action type, and falls in the hourly and daily reset
\* window that check was made in.
C4_IncrementInCheckedWindow ==
    (lastOp.op = "record" /\ lastOp.success) =>
        LET c == lastOp.check
            st == account_states[lastOp.account]
        IN  /\ c.held
            /\ st.hourly_reset_at = c.hourly_reset_at
            /\ st.daily_reset_at = c.daily_reset_at
            /\ now < c.hourly_reset_at + SecondsPerHour
            /\ now < c.daily_reset_at + SecondsPerDay

\* What C2 calls "no hourly, daily or min-interval limit denies the action": the
\* counts as they stand once an expired window is rolled over are below the
\* age-scaled limits, and the last action is at least min_interval ago.
NoLimitDenies(st, a, p, t) ==
    \/ ~HasConfig(p, a)
    \/ LET config == DEFAULT_LIMITS[p][a]
           hourly == IF t >= st.hourly_reset_at + SecondsPerHour
                     THEN 0 ELSE st.hourly_actions[a]
           daily == IF t >= st.daily_reset_at + SecondsPerDay
                    THEN 0 ELSE st.daily_actions[a]
       IN  /\ hourly < get_limit_for_age(config, st.age_category, "hourly")
           /\ daily < get_limit_for_age(config, st.age_category, "daily")
           /\ \/ st.last_action_at[a] = NoTime
              \/ t - st.last_action_at[a] >= config.min_interval_seconds

\* C2: a can_execute on a cooling account is denied while now < cooling_until,
\* whatever the action type; from now >= cooling_until on, the call itself clears
\* the cooling flag and allows the action exactly when no limit denies it.
C2_Cooling ==
    [][ (lastOp'.op = "can_execute" /\ lastOp'.account \in Registered
            /\ account_states[lastOp'.account].is_cooling) =>
        LET acc == lastOp'.account
            st == account_states[acc]
        IN  IF now < st.cooling_until
            THEN /\ ~ret'.allowed
                 /\ account_states'[acc].is_cooling
            ELSE /\ ~account_states'[acc].is_cooling
                 /\ ret'.allowed <=> NoLimitDenies(st, lastOp'.action,
                                                   lastOp'.platform, now) ]_vars

\* C2 witness: a can_execute on an account whose cooling has run out was allowed.
C2_Witness ==
    /\ lastOp.op = "can_execute"
    /\ lastOp.was_cooling
    /\ ret.allowed
    /\ ~account_states[lastOp.account].is_cooling

-----------------------------------------------------------------------------
(* FollowBackDetectorService *)

\* The probes of one relationship that the model follows.
MaxChecks == 3
\* The clock of the detector samples the weeks 0..MaxWeeks (a week is the
\* follow-back timeout) and, in each, the readings 0, FollowStep, ...,
\* MaxFollowSteps*FollowStep.
MaxWeeks == 1
MaxFollowSteps == 2

DEFAULT_TIMEOUT_DAYS == 7
MIN_CHECK_INTERVAL_HOURS == 1

FollowStatus == {"not_following", "following", "mutual", "pending", "blocked"}
Targets == {"t1"}
\* relationship_id = f"{sub_account_id}_{target_user_id}"
RelId(acc, target) == <<acc, target>>

FollowStep == SecondsPerHour \div 2
FollowTimes ==
    { w * DEFAULT_TIMEOUT_DAYS * SecondsPerDay + k * FollowStep :
        w \in 0 .. MaxWeeks, k \in 0 .. MaxFollowSteps }

\* What _check_follower_status gives check_follow_back: the shipped probe always
\* answers False; the probe of a deployment looks the follower list up through
\* the browser and answers True, False or raises.
ProbeOutcomes == {"following_back", "not_following_back", "error"}

\* status for a fresh follow
FollowedStatus(is_private) == IF is_private THEN "pending" ELSE "following"

NewRelationship(acc, target, is_private, t) ==
    [ sub_account_id |-> acc,
      target_user_id |-> target,
      status |-> FollowedStatus(is_private),
      followed_at |-> t,
      follow_back_at |-> NoTime,
      unfollow_at |-> NoTime,
      timeout_at |-> t + DEFAULT_TIMEOUT_DAYS * SecondsPerDay,
      check_count |-> 0,
      last_checked_at |-> NoTime,
      is_private_account |-> is_private ]

\* register_follow: the relationships after the call
register_follow(rels, acc, target, is_private, t) ==
    LET id == RelId(acc, target) IN
    IF id \in DOMAIN rels
    THEN [rels EXCEPT ![id] =
            [@ EXCEPT !.status = FollowedStatus(is_private),
                      !.followed_at = t,
                      !.timeout_at = t + DEFAULT_TIMEOUT_DAYS * SecondsPerDay]]
    ELSE [r \in DOMAIN rels \cup {id} |->
            IF r = id THEN NewRelationship(acc, target, is_private, t) ELSE rels[r]]

\* get_pending_relationships(sub_account_id): the ids of the relationships returned
get_pending_relationships(rels, acc, t) ==
    { id \in DOMAIN rels :
        /\ rels[id].status \notin {"mutual", "not_following"}
        /\ rels[id].sub_account_id = acc
        /\ ~ ( /\ rels[id].last_checked_at # NoTime
               /\ t - rels[id].last_checked_at
                     < MIN_CHECK_INTERVAL_HOURS * SecondsPerHour ) }

\* get_timeout_relationships(sub_account_id): the ids of the relationships returned
get_timeout_relationships(rels, acc, t) ==
    { id \in DOMAIN rels :
        /\ rels[id].status = "following"
        /\ rels[id].sub_account_id = acc
        /\ rels[id].timeout_at # NoTime
        /\ rels[id].timeout_at <= t }

DetectionResult(id, previous, current, changed, should_unfollow, should_dm, error) ==
    [ relationship_id |-> id, previous_status |-> previous, current_status |-> current,
      changed |-> changed, should_unfollow |-> should_unfollow, should_dm |-> should_dm,
      error |-> error ]

\* A detection that sets the status and leaves follow_back_at alone.
MarkMutual_NoTimestamp(rel, t) == [rel EXCEPT !.status = "mutual"]

\* the relationship after a newly detected follow-back
MarkMutual(rel, t) == [rel EXCEPT !.status = "mutual", !.follow_back_at = t]

\* check_follow_back(relationship) when the probe gives `probe`:
\* the relationship after the call and the DetectionResult returned
check_follow_back(id, rel, probe, t) ==
    IF probe = "error"
    THEN [ rel |-> rel,
           result |-> DetectionResult(id, rel.status, rel.status, FALSE, FALSE, FALSE, TRUE) ]
    ELSE LET counted == [rel EXCEPT !.check_count = @ + 1, !.last_checked_at = t] IN
         IF probe = "following_back"
         THEN IF rel.status # "mutual"
              THEN [ rel |-> MarkMutual(counted, t),
                     result |-> DetectionResult(id, rel.status, "mutual",
                                                TRUE, FALSE, TRUE, FALSE) ]
              ELSE [ rel |-> counted,
                     result |-> DetectionResult(id, rel.status, rel.status,
                                                FALSE, FALSE, FALSE, FALSE) ]
         ELSE [ rel |-> counted,
                result |-> DetectionResult(id, rel.status, rel.status, FALSE,
                              rel.timeout_at # NoTime /\ t >= rel.timeout_at,
                              FALSE, FALSE) ]

\* process_timeouts(sub_account_id): the relationships after the call.  Whether
\* the detector has an executor, the account an active context, and what
\* execute_unfollow returns make no difference to them.
process_timeouts(rels, acc, t) ==
    [ id \in DOMAIN rels |->
        IF id \in get_timeout_relationships(rels, acc, t)
        THEN [rels[id] EXCEPT !.status = "not_following", !.unfollow_at = t]
        ELSE rels[id] ]

-----------------------------------------------------------------------------
(* Steps of the detector *)

nonFollowVars == <<schedVars, proxyVars, spinVars, convVars, execVars, queueVars, sweepVars, tzVars>>

RegisterFollow(acc, target, is_private) ==
    /\ relationships' = register_follow(relationships, acc, target, is_private, now)
    /\ lastOp' = [op |-> "register_follow", rel |-> RelId(acc, target),
                  is_private |-> is_private]
    /\ ret' = relationships'[RelId(acc, target)]
    /\ UNCHANGED <<now, dm_raised, nonFollowVars>>

\* check_follow_back(relationship), called on a relationship of the detector
CheckFollowBack(id, probe) ==
    /\ id \in DOMAIN relationships
    /\ relationships[id].check_count < MaxChecks
    /\ LET r == check_follow_back(id, relationships[id], probe, now) IN
         /\ relationships' = [relationships EXCEPT ![id] = r.rel]
         /\ ret' = r.result
         /\ dm_raised' = IF r.result.should_dm THEN dm_raised \cup {id} ELSE dm_raised
    /\ lastOp' = [op |-> "check_follow_back", rel |-> id, probe |-> probe,
                  dm_before |-> dm_raised]
    /\ UNCHANGED <<now, nonFollowVars>>

\* check_batch(sub_account_id) with the default limit of 50, which exceeds the
\* relationships of the model; probe[id] is what the probe gives for id.  The
\* results are held by relationship id.
CheckBatch(acc, probe) ==
    LET pending == get_pending_relationships(relationships, acc, now)
        r == [id \in pending |-> check_follow_back(id, relationships[id], probe[id], now)]
    IN  /\ \A id \in pending : relationships[id].check_count < MaxChecks
        /\ relationships' = [id \in DOMAIN relationships |->
                               IF id \in pending THEN r[id].rel ELSE relationships[id]]
        /\ ret' = [ total_checked |-> Cardinality(pending),
                    new_follow_backs |->
                        Cardinality({id \in pending :
                            /\ ~r[id].result.error
                            /\ r[id].result.changed
                            /\ r[id].result.current_status = "mutual"}),
                    timeouts |->
                        Cardinality(get_timeout_relationships(relationships', acc, now)),
                    errors |-> Cardinality({id \in pending : r[id].result.error}),
                    results |-> [id \in pending |-> r[id].result] ]
        /\ dm_raised' = dm_raised \cup {id \in pending : r[id].result.should_dm}
        /\ lastOp' = [op |-> "check_batch", account |-> acc, dm_before |-> dm_raised]
        /\ UNCHANGED <<now, nonFollowVars>>

ProcessTimeouts(acc) ==
    /\ relationships' = process_timeouts(relationships, acc, now)
    /\ lastOp' = [op |-> "process_timeouts", account |-> acc]
    /\ ret' = { relationships[id].target_user_id :
                  id \in get_timeout_relationships(relationships, acc, now) }
    /\ UNCHANGED <<now, dm_raised, nonFollowVars>>

RelIds == { RelId(acc, target) : acc \in Accounts, target \in Targets }

FollowNext ==
    \/ Tick(FollowTimes)
    \/ \E acc \in Accounts, target \in Targets, is_private \in BOOLEAN :
          RegisterFollow(acc, target, is_private)
    \/ \E id \in RelIds, probe \in ProbeOutcomes : CheckFollowBack(id, probe)
    \/ \E acc \in Accounts, probe \in [RelIds -> ProbeOutcomes] : CheckBatch(acc, probe)
    \/ \E acc \in Accounts : ProcessTimeouts(acc)

SpecFollow == Init /\ [][FollowNext]_vars

\* The same calls on relationships that are only ever registered with
\* is_private = False.
FollowPublicNext ==
    \/ Tick(FollowTimes)
    \/ \E acc \in Accounts, target \in Targets : RegisterFollow(acc, target, FALSE)
    \/ \E id \in RelIds, probe \in ProbeOutcomes : CheckFollowBack(id, probe)
    \/ \E acc \in Accounts, probe \in [RelIds -> ProbeOutcomes] : CheckBatch(acc, probe)
    \/ \E acc \in Accounts : ProcessTimeouts(acc)

SpecFollowPublic == Init /\ [][FollowPublicNext]_vars

-----------------------------------------------------------------------------
(* Claims about the detector *)

\* C5: over any sequence of register_follow, check and process_timeouts calls on
\* a relationship and any outcomes of the probe, should_dm is true in the result
\* of at most one check of the relationship: a check (single or in a batch) never
\* returns should_dm for a relationship an earlier check has returned it for.
C5_ShouldDmOnce ==
    /\ lastOp.op = "check_follow_back" =>
          (ret.should_dm => lastOp.rel \notin lastOp.dm_before)
    /\ lastOp.op = "check_batch" =>
          \A id \in DOMAIN ret.results :
              ret.results[id].should_dm => id \notin lastOp.dm_before

\* C6: a relationship whose status is mutual has a follow-back timestamp
C6_MutualHasTimestamp ==
    \A id \in DOMAIN relationships :
        relationships[id].status = "mutual" => relationships[id].follow_back_at # NoTime

\* A relationship that has timed out, was unfollowed and registered again, and
\* is mutual after a later check.
C6_Witness ==
    \E id \in DOMAIN relationships :
        /\ relationships[id].status = "mutual"
        /\ relationships[id].unfollow_at # NoTime
        /\ relationships[id].followed_at > relationships[id].unfollow_at
        /\ relationships[id].follow_back_at > relationships[id].followed_at

-----------------------------------------------------------------------------
(* ProxyPoolService *)

\* Health checks of the proxies of the pool that the model follows.
MaxRequests == 3
\* The clock of the pool samples 0, the cooling duration, ..., MaxProxySteps
\* cooling durations.
MaxProxySteps == 1

\* ProxyPoolService.__init__
CoolingDurationMinutes == 30
MaxConsecutiveFailures == 3
\* check_proxy_health: a response slower than this makes the proxy slow
SlowThresholdMs == 5000

ProxyStatus == {"active", "slow", "failed", "banned", "cooling"}
ProxyQuality == {"residential", "datacenter", "mobile"}
ProxyIds == {"p1", "p2"}
\* The country of the ProxyConfig added under each id and the country filters
\* of the calls; "None" is Python's None.
ProxyCountry == [p1 |-> "US", p2 |-> "DE"]
CountryFilters == {"None", "US"}
\* The elapsed milliseconds a health check measures.
ElapsedMs == {100, 6000}

ProxyTimes == { k * CoolingDurationMinutes * SecondsPerMinute : k \in 0 .. MaxProxySteps }

RECURSIVE GCD(_, _)
GCD(a, b) == IF b = 0 THEN a ELSE GCD(b, a % b)

\* A float held as a fraction in lowest terms.
Rat(n, d) == LET g == GCD(n, d) IN [n |-> n \div g, d |-> d \div g]
RatLess(x, y) == x.n * y.d < y.n * x.d

\* ProxyConfig(id=..., country=...) with the defaults of the dataclass
ProxyConfig(id, country) ==
    [ id |-> id,
      quality |-> "residential",
      country |-> country,
      status |-> "active",
      avg_response_time_ms |-> Rat(0, 1),
      success_rate |-> Rat(1, 1),
      total_requests |-> 0,
      failed_requests |-> 0,
      cooling_until |-> NoTime,
      assigned_to_account_id |-> "None" ]

\* What a call of the pool returns or raises.
Proxy(id) == [kind |-> "proxy", id |-> id]
NoProxy == [kind |-> "none"]
Raised(exc) == [kind |-> "raise", exc |-> exc]
Bool(b) == [kind |-> "bool", value |-> b]

\* get_available_proxies: a cooling proxy whose cooling has ended is set active
\* as the loop passes it, before the filters are applied.
CoolingEnded(p, t) ==
    p.status = "cooling" /\ ~(p.cooling_until # NoTime /\ p.cooling_until > t)

Reactivated(prox, t) ==
    [ id \in DOMAIN prox |->
        IF CoolingEnded(prox[id], t) THEN [prox[id] EXCEPT !.status = "active"]
        ELSE prox[id] ]

\* the proxy is not skipped as banned or cooling
IsAvailable(p, t) ==
    /\ p.status # "banned"
    /\ ~(p.status = "cooling" /\ p.cooling_until # NoTime /\ p.cooling_until > t)

PassesFilters(p, country, quality, exclude_assigned) ==
    /\ ~(country # "None" /\ p.country # country)
    /\ ~(quality # "None" /\ p.quality # quality)
    /\ ~(exclude_assigned /\ p.assigned_to_account_id # "None")

\* get_available_proxies: the ids of the list returned, in the order of the dict
get_available_proxies(prox, keys, country, quality, exclude_assigned, t) ==
    LET Keep(id) == /\ IsAvailable(prox[id], t)
                    /\ PassesFilters(prox[id], country, quality, exclude_assigned)
    IN  SelectSeq(keys, Keep)

\* available.sort(key=lambda p: (-p.success_rate, p.avg_response_time_ms))
KeyLess(p, q) ==
    \/ RatLess(q.success_rate, p.success_rate)
    \/ /\ p.success_rate = q.success_rate
       /\ RatLess(p.avg_response_time_ms, q.avg_response_time_ms)

\* available[0] after the stable sort
FirstBest(prox, available) ==
    available[ CHOOSE i \in 1 .. Len(available) :
                  /\ \A j \in 1 .. Len(available) : ~KeyLess(prox[available[j]], prox[available[i]])
                  /\ \A j \in 1 .. (i - 1) : KeyLess(prox[available[i]], prox[available[j]]) ]

\* get_best_proxy(country, quality): what it returns or raises
get_best_proxy(prox, keys, country, quality, t) ==
    LET available == get_available_proxies(prox, keys, country, quality, FALSE, t) IN
    IF available = << >> THEN Raised("NoAvailableProxyError")
    ELSE Proxy(FirstBest(prox, available))

\* release_account_proxy: the pool after the call
release_account_proxy(prox, map, acc) ==
    IF acc \in DOMAIN map
    THEN [ proxies |-> IF map[acc] \in DOMAIN prox
                       THEN [prox EXCEPT ![map[acc]].assigned_to_account_id = "None"]
                       ELSE prox,
           map |-> [a \in DOMAIN map \ {acc} |-> map[a]],
           ret |-> Bool(TRUE) ]
    ELSE [ proxies |-> prox, map |-> map, ret |-> Bool(FALSE) ]

\* assign_proxy_to_account(account_id, proxy_id, country): the pool after the
\* call and what the call returns or raises.  Without a usable proxy_id it calls
\* get_best_proxy(country=country, exclude_assigned=True); get_best_proxy takes
\* country and quality only, so that call raises TypeError before get_best_proxy
\* runs.
assign_proxy_to_account(prox, map, acc, proxy_id, country) ==
    IF acc \in DOMAIN map /\ map[acc] \in DOMAIN prox
    THEN [ proxies |-> prox, map |-> map, ret |-> Proxy(map[acc]) ]
    ELSE IF proxy_id # "None" /\ proxy_id \in DOMAIN prox
    THEN [ proxies |-> [prox EXCEPT ![proxy_id].assigned_to_account_id = acc],
           map |-> [a \in DOMAIN map \cup {acc} |-> IF a = acc THEN proxy_id ELSE map[a]],
           ret |-> Proxy(proxy_id) ]
    ELSE [ proxies |-> prox, map |-> map, ret |-> Raised("TypeError") ]

\* check_proxy_health on a proxy of the pool: the proxy after a response that
\* took `elapsed` ms
HealthCheckSucceeded(p, elapsed) ==
    LET total == p.total_requests + 1 IN
    [ p EXCEPT
        !.total_requests = total,
        !.avg_response_time_ms =
            Rat(p.avg_response_time_ms.n * (total - 1) + elapsed * p.avg_response_time_ms.d,
                p.avg_response_time_ms.d * total),
        !.success_rate = Rat(total - p.failed_requests, total),
        !.status = IF elapsed < SlowThresholdMs THEN "active" ELSE "slow" ]

\* ... and after a request that raised
HealthCheckFailed(p, t) ==
    LET total == p.total_requests + 1
        failed == p.failed_requests + 1
        counted == [ p EXCEPT !.total_requests = total,
                              !.failed_requests = failed,
                              !.success_rate = Rat(total - failed, total) ]
    IN  IF failed >= MaxConsecutiveFailures
        THEN [ counted EXCEPT !.status = "cooling",
                 !.cooling_until = t + CoolingDurationMinutes * SecondsPerMinute ]
        ELSE counted

-----------------------------------------------------------------------------
(* Steps of the pool *)

nonProxyVars == <<schedVars, followVars, spinVars, convVars, execVars, queueVars, sweepVars, tzVars>>

RECURSIVE Requests(_, _)
\* The health checks counted by the proxies with the ids S.
Requests(prox, S) ==
    IF S = {} THEN 0
    ELSE LET id == CHOOSE x \in S : TRUE
         IN  prox[id].total_requests + Requests(prox, S \ {id})

\* add_proxy(ProxyConfig(id, country))
AddProxy(id, country) ==
    /\ proxies' = [p \in DOMAIN proxies \cup {id} |->
                     IF p = id THEN ProxyConfig(id, country) ELSE proxies[p]]
    /\ proxy_keys' = IF id \in DOMAIN proxies THEN proxy_keys ELSE Append(proxy_keys, id)
    /\ lastOp' = [op |-> "add_proxy", proxy_id |-> id]
    /\ ret' = NoRet
    /\ UNCHANGED <<now, account_proxy_map, nonProxyVars>>

RemoveProxy(id) ==
    /\ IF id \in DOMAIN proxies
       THEN /\ proxies' = [p \in DOMAIN proxies \ {id} |-> proxies[p]]
            /\ proxy_keys' = SelectSeq(proxy_keys, LAMBDA k : k # id)
            /\ account_proxy_map' =
                  [a \in {x \in DOMAIN account_proxy_map : account_proxy_map[x] # id} |->
                      account_proxy_map[a]]
            /\ ret' = Bool(TRUE)
       ELSE /\ UNCHANGED proxyVars
            /\ ret' = Bool(FALSE)
    /\ lastOp' = [op |-> "remove_proxy", proxy_id |-> id]
    /\ UNCHANGED <<now, nonProxyVars>>

GetAvailableProxies(country, exclude_assigned) ==
    /\ proxies' = Reactivated(proxies, now)
    /\ ret' = [kind |-> "list",
               ids |-> get_available_proxies(proxies, proxy_keys, country, "None",
                                             exclude_assigned, now)]
    /\ lastOp' = [op |-> "get_available_proxies", country |-> country]
    /\ UNCHANGED <<now, proxy_keys, account_proxy_map, nonProxyVars>>

GetBestProxy(country) ==
    /\ proxies' = Reactivated(proxies, now)
    /\ ret' = get_best_proxy(proxies, proxy_keys, country, "None", now)
    /\ lastOp' = [op |-> "get_best_proxy", country |-> country]
    /\ UNCHANGED <<now, proxy_keys, account_proxy_map, nonProxyVars>>

\* get_random_proxy: random.choice picks any proxy of the available list
GetRandomProxy(country) ==
    LET available == get_available_proxies(proxies, proxy_keys, country, "None", FALSE, now)
    IN  /\ proxies' = Reactivated(proxies, now)
        /\ IF available = << >>
           THEN ret' = Raised("NoAvailableProxyError")
           ELSE \E i \in 1 .. Len(available) : ret' = Proxy(available[i])
        /\ lastOp' = [op |-> "get_random_proxy", country |-> country]
        /\ UNCHANGED <<now, proxy_keys, account_proxy_map, nonProxyVars>>

\* The ids of the proxies that pass the availability filter and the country filter.
Matching(country, exclude_assigned) ==
    LET l == get_available_proxies(proxies, proxy_keys, country, "None",
                                   exclude_assigned, now)
    IN  { l[i] : i \in 1 .. Len(l) }

\* The proxy the account is assigned, "None" if it has none in the pool.
AssignedProxy(acc) ==
    IF acc \in DOMAIN account_proxy_map /\ account_proxy_map[acc] \in DOMAIN proxies
    THEN account_proxy_map[acc] ELSE "None"

AssignProxy(acc, proxy_id, country) ==
    LET r == assign_proxy_to_account(proxies, account_proxy_map, acc, proxy_id, country)
    IN  /\ proxies' = r.proxies
        /\ account_proxy_map' = r.map
        /\ ret' = r.ret
        /\ lastOp' = [op |-> "assign_proxy_to_account", account |-> acc,
                      proxy_id |-> proxy_id, country |-> country,
                      existing |-> AssignedProxy(acc),
                      matching |-> Matching(country, FALSE),
                      unassigned |-> Matching(country, TRUE)]
        /\ UNCHANGED <<now, proxy_keys, nonProxyVars>>

GetAccountProxy(acc) ==
    /\ ret' = IF AssignedProxy(acc) # "None" THEN Proxy(AssignedProxy(acc)) ELSE NoProxy
    /\ lastOp' = [op |-> "get_account_proxy", account |-> acc]
    /\ UNCHANGED <<now, proxyVars, nonProxyVars>>

ReleaseAccountProxy(acc) ==
    LET r == release_account_proxy(proxies, account_proxy_map, acc)
    IN  /\ proxies' = r.proxies
        /\ account_proxy_map' = r.map
        /\ ret' = r.ret
        /\ lastOp' = [op |-> "release_account_proxy", account |-> acc]
        /\ UNCHANGED <<now, proxy_keys, nonProxyVars>>

\* rotate_account_proxy: release_account_proxy, then assign_proxy_to_account
\* without a proxy_id
RotateAccountProxy(acc, country) ==
    LET released == release_account_proxy(proxies, account_proxy_map, acc)
        r == assign_proxy_to_account(released.proxies, released.map, acc, "None", country)
    IN  /\ proxies' = r.proxies
        /\ account_proxy_map' = r.map
        /\ ret' = r.ret
        /\ lastOp' = [op |-> "rotate_account_proxy", account |-> acc, country |-> country]
        /\ UNCHANGED <<now, proxy_keys, nonProxyVars>>

\* check_proxy_health(proxy_id): the request answers after `elapsed` ms or raises
CheckProxyHealthWithin(id, healthy, elapsed, max_requests) ==
    /\ lastOp' = [op |-> "check_proxy_health", proxy_id |-> id]
    /\ IF id \notin DOMAIN proxies
       THEN /\ ret' = [kind |-> "health", is_healthy |-> FALSE, error |-> "Proxy not found"]
            /\ UNCHANGED proxies
       ELSE /\ Requests(proxies, DOMAIN proxies) < max_requests
            /\ IF healthy
               THEN /\ proxies' = [proxies EXCEPT ![id] = HealthCheckSucceeded(@, elapsed)]
                    /\ ret' = [kind |-> "health", is_healthy |-> TRUE, error |-> "None"]
               ELSE /\ proxies' = [proxies EXCEPT ![id] = HealthCheckFailed(@, now)]
                    /\ ret' = [kind |-> "health", is_healthy |-> FALSE, error |-> "raised"]
    /\ UNCHANGED <<now, proxy_keys, account_proxy_map, nonProxyVars>>

CheckProxyHealth(id, healthy, elapsed) == CheckProxyHealthWithin(id, healthy, elapsed, MaxRequests)

MarkProxyBanned(id) ==
    /\ IF id \in DOMAIN proxies
       THEN /\ proxies' = [proxies EXCEPT ![id].status = "banned"]
            /\ ret' = Bool(TRUE)
       ELSE /\ UNCHANGED proxies
            /\ ret' = Bool(FALSE)
    /\ lastOp' = [op |-> "mark_proxy_banned", proxy_id |-> id]
    /\ UNCHANGED <<now, proxy_keys, account_proxy_map, nonProxyVars>>

ProxyNext ==
    \/ Tick(ProxyTimes)
    \/ \E id \in ProxyIds : AddProxy(id, ProxyCountry[id])
    \/ \E id \in ProxyIds : RemoveProxy(id)
    \/ \E country \in CountryFilters, ex \in BOOLEAN : GetAvailableProxies(country, ex)
    \/ \E country \in CountryFilters : GetBestProxy(country)
    \/ \E country \in CountryFilters : GetRandomProxy(country)
    \/ \E acc \in Accounts, id \in ProxyIds \cup {"None"}, country \in CountryFilters :
          AssignProxy(acc, id, country)
    \/ \E acc \in Accounts : GetAccountProxy(acc)
    \/ \E acc \in Accounts : ReleaseAccountProxy(acc)
    \/ \E acc \in Accounts, country \in CountryFilters : RotateAccountProxy(acc, country)
    \/ \E id \in ProxyIds, healthy \in BOOLEAN, elapsed \in ElapsedMs :
          CheckProxyHealth(id, healthy, elapsed)
    \/ \E id \in ProxyIds : MarkProxyBanned(id)

SpecProxy == Init /\ [][ProxyNext]_vars

-----------------------------------------------------------------------------
(* Claims about the pool *)

\* C7: an assign for an account that holds an assignment returns the proxy
\* assigned; an assign without proxy_id for an account that holds none, when an
\* available unassigned proxy passes the country filter, returns a proxy the
\* pool selects and assigns it; after release the account holds no assignment.
C7_StickyAssign ==
    /\ lastOp.op = "assign_proxy_to_account" =>
          /\ lastOp.existing # "None" => ret = Proxy(lastOp.existing)
          /\ (lastOp.existing = "None" /\ lastOp.proxy_id = "None"
                /\ lastOp.unassigned # {}) =>
                 /\ ret.kind = "proxy"
                 /\ AssignedProxy(lastOp.account) = ret.id
    /\ lastOp.op = "release_account_proxy" => AssignedProxy(lastOp.account) = "None"

\* The calls that hand a proxy out.
ProxyLookups ==
    { "assign_proxy_to_account", "rotate_account_proxy", "get_account_proxy",
      "get_best_proxy", "get_random_proxy", "get_available_proxies" }

\* C8: no lookup returns a proxy whose status is banned
C8_BannedNeverReturned ==
    lastOp.op \in ProxyLookups =>
        /\ ret.kind = "proxy" => proxies[ret.id].status # "banned"
        /\ ret.kind = "list" =>
              \A i \in 1 .. Len(ret.ids) : proxies[ret.ids[i]].status # "banned"

\* C9: an assign for an account without assignment and without proxy_id, when no
\* proxy passes the availability and country filters, raises NoAvailableProxyError
C9_PoolExhausted ==
    ( /\ lastOp.op = "assign_proxy_to_account"
      /\ lastOp.existing = "None"
      /\ lastOp.proxy_id = "None"
      /\ lastOp.matching = {} )
    => ret = Raised("NoAvailableProxyError")

-----------------------------------------------------------------------------
(* SpintaxService.  A text is the sequence of its characters.  `templates`   *)
(* holds the templates added with add_template; the default templates the   *)
(* constructor loads are not rendered here.                                  *)

\* The templates of the model have up to MaxGroups groups side by side and
\* groups nested up to MaxDepth deep.
MaxGroups == 11
MaxDepth == 11
\* Renderings of one template that the model follows (total_used).
MaxUsed == 1

\* max_iterations of spin
max_iterations == 10

\* The letters and digits the texts of the model are written with.
Letters == {"a", "b", "x", "A", "B", "C", "D"}
Digits == {}

IsBrace(c) == c \in {"{", "}"}

\* SPINTAX_PATTERN \{([^{}]+)\} matches text[i..j]
SpintaxMatch(text, i, j) ==
    /\ text[i] = "{"
    /\ text[j] = "}"
    /\ j > i + 1
    /\ \A k \in (i + 1) .. (j - 1) : ~IsBrace(text[k])

\* the starts of the matches of SPINTAX_PATTERN in text
MatchStarts(text) ==
    { i \in 1 .. Len(text) :
        text[i] = "{" /\ \E j \in i .. Len(text) : SpintaxMatch(text, i, j) }

\* the end of the match that starts at i
MatchEnd(text, i) == CHOOSE j \in i .. Len(text) : SpintaxMatch(text, i, j)

\* SPINTAX_PATTERN.search: the leftmost of the starts of the matches
FirstMatch(starts) == CHOOSE i \in starts : \A k \in starts : i <= k

RECURSIVE Split(_, _)
\* str.split(sep) for a separator of one character
Split(text, sep) ==
    IF \A i \in 1 .. Len(text) : text[i] # sep
    THEN << text >>
    ELSE LET i == CHOOSE k \in 1 .. Len(text) :
                     text[k] = sep /\ \A m \in 1 .. (k - 1) : text[m] # sep
         IN  << SubSeq(text, 1, i - 1) >> \o Split(SubSeq(text, i + 1, Len(text)), sep)

\* random.choice(options) when the random source gives pick
Choice(options, pick) == options[((pick - 1) % Len(options)) + 1]

\* for _ in range(max_iterations): the loop has run n times and ends
IterationsDone(n) == n >= max_iterations

RECURSIVE SpinLoop(_, _, _)
\* the loop of spin after n iterations; picks[n + 1] drives the next choice
SpinLoop(result, n, picks) ==
    LET starts == MatchStarts(result) IN
    IF IterationsDone(n) \/ starts = {}
    THEN result
    ELSE LET i == FirstMatch(starts)
             j == MatchEnd(result, i)
             options == Split(SubSeq(result, i + 1, j - 1), "|")
             chosen == Choice(options, picks[n + 1])
         IN  SpinLoop(SubSeq(result, 1, i - 1) \o chosen
                         \o SubSeq(result, j + 1, Len(result)),
                      n + 1, picks)

spin(text, picks) == SpinLoop(text, 0, picks)

\* text[i..] starts with pat
StartsAt(text, pat, i) ==
    /\ i + Len(pat) - 1 <= Len(text)
    /\ SubSeq(text, i, i + Len(pat) - 1) = pat

RECURSIVE Replace(_, _, _)
\* str.replace(pat, value) for a pattern that is not empty
Replace(text, pat, value) ==
    IF \A i \in 1 .. Len(text) : ~StartsAt(text, pat, i)
    THEN text
    ELSE LET i == CHOOSE k \in 1 .. Len(text) :
                     StartsAt(text, pat, k) /\ \A m \in 1 .. (k - 1) : ~StartsAt(text, pat, m)
         IN  SubSeq(text, 1, i - 1) \o value
                \o Replace(SubSeq(text, i + Len(pat), Len(text)), pat, value)

RECURSIVE replace_variables(_, _)
\* replace_variables(text, variables); variables is the dict as the sequence
\* of its items <<var_name, value>>
replace_variables(text, variables) ==
    IF variables = << >> THEN text
    ELSE replace_variables(
            Replace(text, <<"[">> \o Head(variables)[1] \o <<"]">>, Head(variables)[2]),
            Tail(variables))

IsIdentStart(c) == c \in Letters \cup {"_"}
IsIdentChar(c) == c \in Letters \cup Digits \cup {"_"}

\* VARIABLE_PATTERN.findall(text) as a set: the names between [ and ]
VariableNames(text) ==
    { SubSeq(text, i + 1, j - 1) :
        <<i, j>> \in { p \in (1 .. Len(text)) \X (1 .. Len(text)) :
                        /\ text[p[1]] = "[" /\ text[p[2]] = "]"
                        /\ p[2] > p[1] + 1
                        /\ IsIdentStart(text[p[1] + 1])
                        /\ \A k \in (p[1] + 1) .. (p[2] - 1) : IsIdentChar(text[k]) } }

Count(text, c) == Cardinality({ i \in 1 .. Len(text) : text[i] = c })

RECURSIVE Strip(_)
\* str.strip() for texts whose only whitespace is the blank
Strip(text) ==
    IF text = << >> THEN text
    ELSE IF Head(text) = " " THEN Strip(Tail(text))
    ELSE IF text[Len(text)] = " " THEN Strip(SubSeq(text, 1, Len(text) - 1))
    ELSE text

\* validate_template(template_text)["valid"]
validate_template(text) ==
    /\ Count(text, "{") = Count(text, "}")
    /\ \A i \in MatchStarts(text) :
          LET options == Split(SubSeq(text, i + 1, MatchEnd(text, i) - 1), "|")
          IN  \A k \in 1 .. Len(options) : Strip(options[k]) # << >>

-----------------------------------------------------------------------------
(* The templates and variables of the model *)

Group == <<"{", "a", "|", "b", "}">>

RECURSIVE Flat(_)
\* n groups side by side: {a|b}{a|b}...
Flat(n) == IF n = 0 THEN << >> ELSE Group \o Flat(n - 1)

RECURSIVE Nested(_)
\* groups nested n deep: {b|{b|...{b|a}...}}
Nested(n) == IF n = 0 THEN <<"a">> ELSE <<"{", "b", "|">> \o Nested(n - 1) \o <<"}">>

TemplateTexts ==
    { Flat(n) : n \in 0 .. MaxGroups }
    \cup { Nested(n) : n \in 1 .. MaxDepth }
    \cup { <<"[", "x", "]">> \o Flat(n) \o Nested(n) : n \in 1 .. 2 }
    \cup { <<"{", "a", "|", "}">>, <<"{", "a">> }

TemplateIds == {"t1"}
\* The variables dicts of the calls.
VariableMaps == { << >>, << <<(<<"x">>), (<<"A">>)>> >> }
\* What random.choice picks in each of the iterations of spin.
Picks == [1 .. max_iterations -> 1 .. 2]

-----------------------------------------------------------------------------
(* Steps of the spintax service *)

nonSpinVars == <<schedVars, followVars, proxyVars, convVars, execVars, queueVars, sweepVars, tzVars>>

\* add_template(MessageTemplate(id, template=text))
AddTemplate(id, text) ==
    /\ templates' = [t \in DOMAIN templates \cup {id} |->
                       IF t = id
                       THEN [template |-> text, variables |-> VariableNames(text),
                             total_used |-> 0]
                       ELSE templates[t]]
    /\ lastOp' = [op |-> "add_template", template_id |-> id]
    /\ ret' = NoRet
    /\ UNCHANGED <<now, nonSpinVars>>

\* generate_message(template_id, variables)
GenerateMessage(id, variables, picks) ==
    /\ lastOp' = [op |-> "generate_message", template_id |-> id, variables |-> variables]
    /\ IF id \notin DOMAIN templates
       THEN /\ ret' = [kind |-> "none"]
            /\ UNCHANGED templates
       ELSE /\ templates[id].total_used < MaxUsed
            /\ ret' = [kind |-> "message", template_id |-> id,
                       content |-> spin(replace_variables(templates[id].template, variables),
                                        picks)]
            /\ templates' = [templates EXCEPT ![id].total_used = @ + 1]
    /\ UNCHANGED <<now, nonSpinVars>>

SpinNext ==
    \/ \E id \in TemplateIds, text \in TemplateTexts : AddTemplate(id, text)
    \/ \E id \in TemplateIds, variables \in VariableMaps, picks \in Picks :
          GenerateMessage(id, variables, picks)

SpecSpin == Init /\ [][SpinNext]_vars

-----------------------------------------------------------------------------
(* Claims about the spintax service *)

\* Every closing brace closes an opening one and none is left open.
ProperlyBalanced(text) ==
    /\ Count(text, "{") = Count(text, "}")
    /\ \A i \in 1 .. Len(text) :
          Count(SubSeq(text, 1, i), "}") <= Count(SubSeq(text, 1, i), "{")

\* C10: the message generated from a template with properly balanced braces
\* and no empty alternative, whatever the number and the nesting of its groups,
\* contains no brace.
C10_NoBracesLeft ==
    ( /\ lastOp.op = "generate_message"
      /\ ret.kind = "message"
      /\ ProperlyBalanced(templates[lastOp.template_id].template)
      /\ validate_template(templates[lastOp.template_id].template) )
    => \A i \in 1 .. Len(ret.content) : ~IsBrace(ret.content[i])

-----------------------------------------------------------------------------
(* Rendering with values that hold spintax characters *)

\* The templates here have up to MaxValueGroups groups before the placeholder.
MaxValueGroups == 3

GroupAB == <<"{", "A", "|", "B", "}">>

RECURSIVE FlatAB(_)
FlatAB(n) == IF n = 0 THEN << >> ELSE GroupAB \o FlatAB(n - 1)

\* {A|B} [x], {A|B}{A|B} [x], ... and the same with the placeholder twice
PlaceholderTexts ==
    { FlatAB(n) \o <<" ", "[", "x", "]">> : n \in 0 .. MaxValueGroups }
    \cup { <<"[", "x", "]">> \o FlatAB(n) \o <<"[", "x", "]">> : n \in 0 .. MaxValueGroups }

\* The values given for x: plain, a spintax group, a lone alternative bar
SpintaxValues == { <<"a">>, <<"{", "C", "|", "D", "}">>, <<"C", "|", "D">> }
ValueMaps == { << <<(<<"x">>), v>> >> : v \in SpintaxValues }

ValueNext ==
    \/ \E id \in TemplateIds, text \in PlaceholderTexts : AddTemplate(id, text)
    \/ \E id \in TemplateIds, variables \in ValueMaps, picks \in Picks :
          GenerateMessage(id, variables, picks)

SpecSpinValues == Init /\ [][ValueNext]_vars

\* C11: the message generated is the template with its groups resolved and
\* every placeholder replaced by the value given, verbatim: it is what
\* substitution into some spin of the template gives; for "{A|B} [x]" and
\* x = "{C|D}" it is "A {C|D}" or "B {C|D}".
C11_ValuesVerbatim ==
    ( lastOp.op = "generate_message" /\ ret.kind = "message" ) =>
        \E picks \in Picks :
            ret.content =
                replace_variables(spin(templates[lastOp.template_id].template, picks),
                                  lastOp.variables)

-----------------------------------------------------------------------------
(* ConversationFlowService *)

\* Inbound messages of one conversation that the model follows (message_count).
MaxMessages == 4

\* failed_intents >= 3
FailedIntentsLimit == 3

\* The inbound messages of the model and what detect_intent finds in them.
Messages == {"hello", "qwerty", "yes", "no", "real person"}
detect_intent(message) ==
    CASE message = "hello" -> "greeting"
      [] message = "yes" -> "positive"
      [] message = "no" -> "negative"
      [] message = "real person" -> "request_human"
      [] OTHER -> "unknown"

\* The templates a message node can name: the defaults of SpintaxService and
\* the templates added.
KnownTemplates ==
    { "opening_friendly", "opening_professional", "value_proposition", "whatsapp_invite",
      "objection_why_whatsapp", "objection_trust", "follow_up_no_reply" }
    \cup DOMAIN templates

\* A response text by where it comes from, not by its characters.
Text(kind, of) == [kind |-> kind, of |-> of]
NoText == Text("none", "None")

FlowResponse(should_respond, response_text, next_node_id, detected_intent, requires_human, end_conversation, delay_seconds, error) ==
    [ should_respond |-> should_respond, response_text |-> response_text,
      next_node_id |-> next_node_id, detected_intent |-> detected_intent,
      requires_human |-> requires_human, end_conversation |-> end_conversation,
      delay_seconds |-> delay_seconds, error |-> error ]

\* _process_node(node, state) for the node with this id; the service has a
\* spintax service
process_node(id, node, intent) ==
    CASE node.node_type = "end" ->
            FlowResponse(FALSE, NoText, "None", intent, FALSE, TRUE, 0, "None")
      [] node.node_type = "human_handoff" ->
            FlowResponse(TRUE, Text(IF node.has_content THEN "content" ELSE "empty", id),
                         id, intent, TRUE, FALSE, 0, "None")
      [] node.node_type = "delay" ->
            FlowResponse(FALSE, NoText, node.default_next, intent, FALSE, FALSE,
                         node.delay_seconds, "None")
      [] node.node_type = "message" ->
            FlowResponse(TRUE,
                IF node.template_id # "None"
                THEN IF node.template_id \in KnownTemplates
                     THEN Text("template", node.template_id) ELSE Text("empty", id)
                ELSE Text(IF node.has_content THEN "content" ELSE "empty", id),
                id, intent, FALSE, FALSE, 0, "None")
      [] OTHER -> FlowResponse(FALSE, NoText, "None", intent, FALSE, FALSE, 0, "None")

\* A test that lets one more unknown message through.
TooManyUnknowns_OneMore(failed_intents) == failed_intents > FailedIntentsLimit

\* the test that forces the handoff
TooManyUnknowns(failed_intents) == failed_intents >= FailedIntentsLimit

\* process_message for a conversation in `state` whose flow is `flow`: the
\* state after the call, the response, and the intent detected ("None" when
\* the call returns before it detects one)
process_message(state, flow, message) ==
    IF state.current_node_id \notin DOMAIN flow.nodes
    THEN [ state |-> state, intent |-> "None",
           response |-> FlowResponse(FALSE, NoText, "None", "unknown", FALSE, TRUE, 0, "None") ]
    ELSE
    LET current_node == flow.nodes[state.current_node_id]
        intent == detect_intent(message)
        counted == [state EXCEPT !.message_count = @ + 1,
                                 !.failed_intents = IF intent = "unknown" THEN @ + 1 ELSE @]
        next_node_id == IF intent \in DOMAIN current_node.next_nodes
                        THEN current_node.next_nodes[intent]
                        ELSE current_node.default_next
    IN  IF intent = "unknown" /\ TooManyUnknowns(counted.failed_intents)
        THEN [ state |-> counted, intent |-> intent,
               response |-> FlowResponse(TRUE, Text("forced_handoff", "None"), "None",
                                         intent, TRUE, FALSE, 0, "None") ]
        ELSE IF next_node_id = "None"
        THEN [ state |-> counted, intent |-> intent,
               response |-> FlowResponse(FALSE, NoText, "None", intent, FALSE, TRUE, 0, "None") ]
        ELSE IF next_node_id \notin DOMAIN flow.nodes
        THEN [ state |-> counted, intent |-> intent,
               response |-> FlowResponse(FALSE, NoText, "None", "unknown", FALSE, TRUE, 0, "None") ]
        ELSE [ state |-> [counted EXCEPT !.current_node_id = next_node_id],
               intent |-> intent,
               response |-> process_node(next_node_id, flow.nodes[next_node_id], intent) ]

-----------------------------------------------------------------------------
(* Steps of the conversation flow service *)

nonConvVars == <<schedVars, followVars, proxyVars, spinVars, execVars, queueVars, sweepVars, tzVars>>

Conversations == {"c1"}
FlowIds == {"standard_outreach", "custom"}

\* The flows callers add under the id "custom": a flow that routes unknown
\* intents back to its question, the same flow whose start_node_id (the default
\* "start") names no node, and a flow whose start leads to a node it has not.
AskNodes ==
    [ ask |-> FlowNode("message", "None", TRUE, 0,
                       [unknown |-> "ask", positive |-> "done"], "ask"),
      done |-> FlowNode("end", "None", FALSE, 0, << >>, "None") ]
CustomFlows ==
    { ConversationFlow(AskNodes, "ask"),
      ConversationFlow(AskNodes, "start"),
      ConversationFlow([start |-> FlowNode("start", "None", FALSE, 0, << >>, "ghost")],
                       "start") }

\* add_flow(flow)
AddFlow(id, flow) ==
    /\ flows' = [f \in DOMAIN flows \cup {id} |-> IF f = id THEN flow ELSE flows[f]]
    /\ lastOp' = [op |-> "add_flow", flow_id |-> id]
    /\ ret' = NoRet
    /\ UNCHANGED <<now, states, unknown_run, nonConvVars>>

\* start_conversation(conversation_id, flow_id)
StartConversation(conv, flow_id) ==
    /\ lastOp' = [op |-> "start_conversation", conversation |-> conv, flow_id |-> flow_id]
    /\ IF flow_id \notin DOMAIN flows
       THEN /\ ret' = Raised("ValueError")
            /\ UNCHANGED <<states, unknown_run>>
       ELSE LET state == [ flow_id |-> flow_id,
                           current_node_id |-> flows[flow_id].start_node_id,
                           message_count |-> 0, failed_intents |-> 0,
                           last_activity |-> now ]
            IN  /\ states' = [c \in DOMAIN states \cup {conv} |->
                                IF c = conv THEN state ELSE states[c]]
                /\ unknown_run' = [c \in DOMAIN states \cup {conv} |->
                                     IF c = conv THEN 0 ELSE unknown_run[c]]
                /\ ret' = state
    /\ UNCHANGED <<now, flows, nonConvVars>>

\* process_message(conversation_id, incoming_message)
ProcessMessage(conv, message) ==
    /\ lastOp' = [op |-> "process_message", conversation |-> conv, message |-> message]
    /\ IF conv \notin DOMAIN states
       THEN /\ ret' = FlowResponse(FALSE, NoText, "None", "unknown", TRUE, FALSE, 0,
                                   "Conversation not found")
            /\ UNCHANGED <<states, unknown_run>>
       ELSE IF states[conv].flow_id \notin DOMAIN flows
       THEN /\ ret' = FlowResponse(FALSE, NoText, "None", "unknown", TRUE, FALSE, 0,
                                   "Flow not found")
            /\ UNCHANGED <<states, unknown_run>>
       ELSE LET r == process_message(states[conv], flows[states[conv].flow_id], message)
            IN  /\ states[conv].message_count < MaxMessages
                /\ states' = [states EXCEPT ![conv] =
                                 IF r.intent = "None" THEN r.state
                                 ELSE [r.state EXCEPT !.last_activity = now]]
                /\ ret' = r.response
                /\ unknown_run' = [unknown_run EXCEPT ![conv] =
                       IF r.intent = "unknown" THEN @ + 1 ELSE 0]
    /\ UNCHANGED <<now, flows, nonConvVars>>

ConvNext ==
    \/ \E flow \in CustomFlows : AddFlow("custom", flow)
    \/ \E conv \in Conversations, id \in FlowIds : StartConversation(conv, id)
    \/ \E conv \in Conversations, message \in Messages : ProcessMessage(conv, message)

SpecConv == Init /\ [][ConvNext]_vars

-----------------------------------------------------------------------------
(* Claims about the conversation flow service *)

\* C12: when the three latest inbound messages of a conversation in a row were
\* detected as unknown intent, process_message returns requires_human = true
\* for the third of them, at whatever node the conversation is.
C12_ThreeUnknownsHandOff ==
    ( /\ lastOp.op = "process_message"
      /\ lastOp.conversation \in DOMAIN unknown_run
      /\ unknown_run[lastOp.conversation] >= FailedIntentsLimit )
    => ret.requires_human

\* The third unknown message arrives at a node that routes unknown intents
\* itself, and is answered with the forced handoff.
C12_Witness ==
    /\ lastOp.op = "process_message"
    /\ lastOp.conversation \in DOMAIN states
    /\ unknown_run[lastOp.conversation] = FailedIntentsLimit
    /\ states[lastOp.conversation].flow_id = "custom"
    /\ states[lastOp.conversation].current_node_id = "ask"
    /\ ret.requires_human
    /\ ret.response_text = Text("forced_handoff", "None")

\* C13: the current_node_id of every conversation is the id of a node of the
\* flow its flow_id names
C13_CurrentNodeInFlow ==
    \A c \in DOMAIN states :
        /\ states[c].flow_id \in DOMAIN flows
        /\ states[c].current_node_id \in DOMAIN flows[states[c].flow_id].nodes

-----------------------------------------------------------------------------
(* Timezone scheduler (timezone_scheduler_service.py)                      *)
(* An aware datetime is [utc |-> minutes since a midnight UTC, tz |-> the  *)
(* zone of its tzinfo]; a naive datetime is its wall-clock reading in      *)
(* minutes.  Zones keep their standard-time offset all year.               *)

MaxFromHour == 23

MinutesPerHour == 60
MinutesPerDay == 1440

\* ZoneInfo(name): the offset of the zone from UTC
UtcOffset(tz) ==
    CASE tz = "UTC"                 -> 0
      [] tz = "Europe/London"       -> 0
      [] tz = "Asia/Tokyo"          -> 9 * MinutesPerHour
      [] tz = "America/New_York"    -> 0 - 5 * MinutesPerHour
      [] tz = "America/Chicago"     -> 0 - 6 * MinutesPerHour
      [] tz = "America/Denver"      -> 0 - 7 * MinutesPerHour
      [] tz = "America/Los_Angeles" -> 0 - 8 * MinutesPerHour

time(hour, minute) == hour * MinutesPerHour + minute

REGION_TIMEZONES ==
    [ US |-> <<"America/New_York", "America/Chicago", "America/Denver",
               "America/Los_Angeles">>,
      UK |-> <<"Europe/London">>,
      JP |-> <<"Asia/Tokyo">> ]

DEFAULT_ENGAGEMENT_WINDOWS ==
    << <<time(7, 0), time(9, 0)>>, <<time(12, 0), time(14, 0)>>,
       <<time(17, 0), time(19, 0)>>, <<time(20, 0), time(22, 0)>> >>

TimezoneWindow(timezone, start_time, end_time) ==
    [timezone |-> timezone, start_time |-> start_time, end_time |-> end_time]

\* dt.astimezone(tz), as the wall-clock reading in tz
astimezone(dt, tz) == dt.utc + UtcOffset(tz)

\* dt.replace(tzinfo=None): the wall-clock reading in the datetime's own zone
StripTz(dt) == astimezone(dt, dt.tz)

is_active_at(window, dt) ==
    LET local_time == astimezone(dt, window.timezone) % MinutesPerDay
    IN  IF window.start_time <= window.end_time
        THEN window.start_time <= local_time /\ local_time <= window.end_time
        ELSE local_time >= window.start_time \/ local_time <= window.end_time

\* the result is a naive datetime in UTC
next_start_utc(window, from_dt) ==
    LET local    == astimezone(from_dt, window.timezone)
        tod      == local % MinutesPerDay
        start_dt == (local - tod) + window.start_time
        moved    == IF tod >= window.start_time THEN start_dt + MinutesPerDay
                                                ELSE start_dt
    IN  moved - UtcOffset(window.timezone)

\* _initialize_default_schedules: per region, the windows of its first zone,
\* then those of its second zone, and so on
region_schedules ==
    [ region_code \in DOMAIN REGION_TIMEZONES |->
        LET timezones == REGION_TIMEZONES[region_code]
            perZone   == Len(DEFAULT_ENGAGEMENT_WINDOWS)
        IN  [ i \in 1 .. (Len(timezones) * perZone) |->
                TimezoneWindow(timezones[((i - 1) \div perZone) + 1],
                               DEFAULT_ENGAGEMENT_WINDOWS[((i - 1) % perZone) + 1][1],
                               DEFAULT_ENGAGEMENT_WINDOWS[((i - 1) % perZone) + 1][2]) ] ]

Earliest(S) == CHOOSE x \in S : \A y \in S : x <= y

\* The two loops of get_optimal_schedule_time from region r, window w on, with
\* the upcoming starts collected so far.
RECURSIVE ScanWindows(_, _, _, _, _)
ScanWindows(target_regions, r, w, from_time, upcoming_starts) ==
    IF r > Len(target_regions)
    THEN IF upcoming_starts = {}
         THEN StripTz(from_time) + MinutesPerHour
         ELSE Earliest(upcoming_starts)
    ELSE IF target_regions[r] \notin DOMAIN region_schedules
    THEN ScanWindows(target_regions, r + 1, 1, from_time, upcoming_starts)
    ELSE LET windows == region_schedules[target_regions[r]]
         IN  IF w > Len(windows)
             THEN ScanWindows(target_regions, r + 1, 1, from_time, upcoming_starts)
             ELSE IF is_active_at(windows[w], from_time)
             THEN StripTz(from_time)
             ELSE ScanWindows(target_regions, r, w + 1, from_time,
                              upcoming_starts \cup {next_start_utc(windows[w], from_time)})

get_optimal_schedule_time(target_regions, from_time) ==
    ScanWindows(target_regions, 1, 1, from_time, {})

\* The calls made: one day of from_time values, on the hour and a minute past
\* it, given in UTC or in the zone of the caller.
TargetRegionLists == { <<"US">>, <<"JP">>, <<"UK", "JP">>, <<"XX">>, <<"XX", "UK">>, << >> }
FromZones == {"UTC", "America/New_York", "Asia/Tokyo"}
FromTimes ==
    { [utc |-> MinutesPerDay + time(h, m), tz |-> z] :
        h \in 0 .. MaxFromHour, m \in {0, 1}, z \in FromZones }

GetOptimalScheduleTime(target_regions, from_time) ==
    /\ lastOp' = [op |-> "get_optimal_schedule_time",
                  target_regions |-> target_regions, from_time |-> from_time]
    /\ ret' = get_optimal_schedule_time(target_regions, from_time)
    /\ UNCHANGED <<now, schedVars, nonSchedVars>>

TzNext ==
    \E target_regions \in TargetRegionLists, from_time \in FromTimes :
        GetOptimalScheduleTime(target_regions, from_time)

SpecTz == Init /\ [][TzNext]_vars

-----------------------------------------------------------------------------
(* Claims about the timezone scheduler *)

\* The windows of the target regions that have a schedule.
TargetWindows(target_regions) ==
    UNION { { region_schedules[target_regions[r]][w] :
                w \in DOMAIN region_schedules[target_regions[r]] } :
            r \in { q \in 1 .. Len(target_regions) :
                      target_regions[q] \in DOMAIN region_schedules } }

\* The instants, in UTC, at which a window starts on the days around the calls.
WindowStarts(window) ==
    { d * MinutesPerDay + window.start_time - UtcOffset(window.timezone) : d \in 0 .. 3 }

\* C14: get_optimal_schedule_time returns from_time itself when a window of a
\* target region is active at from_time, otherwise the earliest start of a
\* window of the target regions strictly after from_time, as a time in UTC;
\* the result is never earlier than from_time.
C14_OptimalTime ==
    lastOp.op = "get_optimal_schedule_time" =>
        LET from_time == lastOp.from_time
            windows   == TargetWindows(lastOp.target_regions)
            active    == \E win \in windows : is_active_at(win, from_time)
            later     == { s \in UNION { WindowStarts(win) : win \in windows } :
                             s > from_time.utc }
        IN  /\ ret >= from_time.utc
            /\ active => ret = from_time.utc
            /\ ( ~active /\ windows # {} ) => ret = Earliest(later)

\* The same, for calls whose from_time is given in UTC.
C14_OptimalTimeFromUtc ==
    ( lastOp.op = "get_optimal_schedule_time" /\ lastOp.from_time.tz = "UTC" ) =>
        C14_OptimalTime

-----------------------------------------------------------------------------
(* Automation executor (automation_executor_service.py), constructed with   *)
(* a browser service and the scheduler service, and no proxy service.       *)
(* One execute_* coroutine is in flight at a time; between two of its       *)
(* awaits the other calls of the service may run.  A sleep takes whole      *)
(* seconds: the step that ends it moves the clock to the time it ends.      *)

MaxContexts == 3
MaxCalls == 2
MaxTargets == 4
MaxExecHour == 1

Profiles == {"p1", "p2"}
ExecTargets == <<"t1", "t2", "t3", "t4", "t5", "t6">>
\* target_usernames / targets of a batch: the first n targets, in this order
TargetLists == { SubSeq(ExecTargets, 1, n) : n \in 0 .. MaxTargets }
\* The readings the clock is moved to between the calls.
ExecTimes == { h * SecondsPerHour - MIN_ACTION_DELAY : h \in 1 .. MaxExecHour }

\* What the browser provider answers to a start request.
StartOutcomes == {"started", "error"}
\* What _perform_*_action does: returns True, returns False or raises.
DriverOutcomes == {"true", "false", "raise"}

\* The sleeps, in whole seconds: _simulate_profile_view sleeps uniform(2, 5),
\* the humanization delay is uniform(MIN_ACTION_DELAY, MAX_ACTION_DELAY), the
\* typing simulation min(len(message) * 0.05 + uniform(1, 3), 10), the driver
\* 0.5 rounded up, and the delay between two targets randint(*delay_range).
MAX_ACTION_DELAY == 8
SleepSeconds(pc, kind) ==
    CASE pc = "view"   -> {2}
      [] pc = "delay"  -> {MIN_ACTION_DELAY, MAX_ACTION_DELAY}
      [] pc = "typing" -> {1}
      [] pc = "driver" -> {1}
      [] pc = "inter"  -> IF kind = "follow" THEN {60} ELSE {120}

NoTask == [kind |-> "none"]
NoContext == [id |-> 0, account_id |-> "None"]
NoLog == [result |-> "none"]

\* proxy_config of a context that was given no proxy (None)
NoProxyConfig == [server |-> "None"]
\* ProxyConfig.to_playwright_config: the server address of the proxy
to_playwright_config(proxy) == [server |-> proxy.id]

ExecutionContext(id, account_id, profile_id, ws_endpoint, session_started_at) ==
    [id |-> id, account_id |-> account_id, profile_id |-> profile_id,
     proxy_config |-> NoProxyConfig,
     ws_endpoint |-> ws_endpoint, platform |-> "instagram",
     session_started_at |-> session_started_at]

ActionLog(action_type, target_id, result, error_message) ==
    [action_type |-> action_type, target_id |-> target_id, result |-> result,
     error_message |-> error_message]

BatchExecutionResult(total_actions) ==
    [total_actions |-> total_actions, successful |-> 0, failed |-> 0, skipped |-> 0,
     rate_limited |-> 0, status |-> "completed", action_logs |-> << >>,
     error_message |-> "None"]

\* The browser sessions an account has started and not stopped.
SessionsOf(acc) == { p \in DOMAIN browser_sessions : browser_sessions[p] = acc }

\* start_session(account_id, profile_id): a new context is created, the
\* browser session of the profile is started and the context replaces
\* whatever _active_contexts held for the account.
StartSessionWith(acc, profile_id, outcome, proxy_service) ==
    /\ next_context < MaxContexts
    /\ LET created == ExecutionContext(next_context + 1, acc, profile_id,
                          IF outcome = "started" THEN profile_id ELSE "None", now)
           context == IF proxy_service /\ AssignedProxy(acc) # "None"
                      THEN [created EXCEPT !.proxy_config =
                               to_playwright_config(proxies[AssignedProxy(acc)])]
                      ELSE created
       IN  /\ active_contexts' =
                 [a \in DOMAIN active_contexts \cup {acc} |->
                     IF a = acc THEN context ELSE active_contexts[a]]
           /\ ret' = context
    /\ next_context' = next_context + 1
    /\ browser_sessions' =
          IF outcome = "started"
          THEN [p \in DOMAIN browser_sessions \cup {profile_id} |->
                   IF p = profile_id THEN acc ELSE browser_sessions[p]]
          ELSE browser_sessions
    /\ lastOp' = [op |-> "start_session", account |-> acc,
                  was_active |-> acc \in DOMAIN active_contexts,
                  existing |-> IF acc \in DOMAIN active_contexts
                               THEN active_contexts[acc] ELSE NoContext,
                  start_requested |-> TRUE]
    /\ UNCHANGED <<now, task, peer, calls, schedVars, followVars, proxyVars, spinVars, convVars, queueVars, sweepVars, tzVars>>

\* start_session of an executor constructed without a proxy service
StartSession(acc, profile_id, outcome) == StartSessionWith(acc, profile_id, outcome, FALSE)

\* stop_session(account_id): the context is popped and the browser session of
\* its profile stopped; the coroutine in flight is left alone.  `stopped`
\* notes that this happened while the coroutine was suspended in a sleep
\* before the driver call.
StopSession(acc) ==
    /\ lastOp' = [op |-> "stop_session", account |-> acc]
    /\ IF acc \notin DOMAIN active_contexts
       THEN /\ ret' = Bool(FALSE)
            /\ UNCHANGED <<active_contexts, browser_sessions>>
       ELSE /\ ret' = Bool(TRUE)
            /\ active_contexts' = [a \in DOMAIN active_contexts \ {acc} |-> active_contexts[a]]
            /\ browser_sessions' =
                  [p \in DOMAIN browser_sessions \ {active_contexts[acc].profile_id} |->
                      browser_sessions[p]]
    /\ task' = IF /\ task.kind # "none"
                  /\ task.context.account_id = acc
                  /\ task.pc \in {"view", "delay", "typing", "inter"}
               THEN [task EXCEPT !.stopped = TRUE]
               ELSE task
    /\ UNCHANGED <<now, next_context, peer, calls, schedVars, followVars, proxyVars, spinVars, convVars, queueVars, sweepVars, tzVars>>

-----------------------------------------------------------------------------
(* The execute_* coroutines *)

Message(reason, a, b) == [reason |-> reason, a |-> a, b |-> b]
NoMessage == Message("None", 0, 0)

\* A test that lets a denied action go on.
Denied_Ignored(check) == FALSE

\* The test `if not can_execute` of execute_follow and execute_dm
Denied(check) == ~check.allowed

\* The call of can_execute_action at the head of execute_follow and
\* execute_dm; execute_unfollow makes none.
SchedulerCheck(kind, account_id, platform, sts, t) ==
    IF kind = "unfollow"
    THEN [called |-> FALSE, states |-> sts, ret |-> Result(TRUE, "None", 0, 0)]
    ELSE IF account_id \notin DOMAIN sts
    THEN [called |-> TRUE, states |-> sts,
          ret |-> Result(FALSE, "Account not registered", 0, 0)]
    ELSE LET r == can_execute_action(sts[account_id], kind, platform, t)
         IN  [called |-> TRUE, states |-> [sts EXCEPT ![account_id] = r.state],
              ret |-> r.ret]

\* The call of record_action(account_id, action_type, success=True) after a
\* driver action that returned True; execute_unfollow makes none.
RecordsSuccess(kind) == kind \in {"follow", "dm"}

\* A tally that leaves failed targets uncounted.
Tally_FailedDropped(kind, result, log) ==
    LET r1 == [result EXCEPT !.action_logs = Append(@, log)]
    IN  IF log.result = "success"
        THEN [r1 EXCEPT !.successful = @ + 1]
        ELSE IF log.result = "rate_limited"
        THEN [r1 EXCEPT !.rate_limited = @ + 1, !.status = "rate_limited"]
        ELSE r1

\* The update of the counters of a batch result with the log of one target.
Tally(kind, result, log) ==
    LET r1 == [result EXCEPT !.action_logs = Append(@, log)]
    IN  IF log.result = "success"
        THEN [r1 EXCEPT !.successful = @ + 1]
        ELSE IF log.result = "rate_limited"
        THEN [r1 EXCEPT !.rate_limited = @ + 1, !.status = "rate_limited"]
        ELSE IF kind = "follow" /\ log.result = "skipped"
        THEN [r1 EXCEPT !.skipped = @ + 1]
        ELSE [r1 EXCEPT !.failed = @ + 1]

\* A loop that goes on after a rate-limited target.
StopsBatch_Never(log) == FALSE

\* The `break` of the batch loops
StopsBatch(log) == log.result = "rate_limited"

\* What one step of a coroutine leaves: the coroutine (NoTask when it has
\* returned), the account states, what it returned and the log of the action
\* it completed, with the sleeps, driver calls and record calls of that action.
Out(tk, sts, returns, value, log, done) ==
    [task |-> tk, states |-> sts, returns |-> returns, ret |-> value, log |-> log,
     sleeps |-> done.sleeps, driver_calls |-> done.driver_calls,
     records |-> done.records, i |-> done.i,
     checked |-> FALSE, check |-> NoRet]

\* execute_* has returned `log` at time t: a single call returns it, a batch
\* tallies it and stops, sleeps before the next target or returns its result.
Completed(tk, sts, log, t) ==
    IF ~tk.batch
    THEN Out(NoTask, sts, "log", log, log, tk)
    ELSE LET result == Tally(tk.kind, tk.result, log)
             final  == IF result.status = "running"
                       THEN [result EXCEPT !.status = "completed"]
                       ELSE result
         IN  IF ~StopsBatch(log) /\ tk.i < Len(tk.targets)
             THEN Out([tk EXCEPT !.result = result, !.pc = "inter", !.since = t],
                      sts, "none", NoRet, log, tk)
             ELSE Out(NoTask, sts, "batch", final, log, tk)

\* execute_follow / execute_unfollow / execute_dm up to its first await or to
\* its return, for target i of the coroutine, at time t.  humanize is left at
\* its default True; view is the draw random() < PROFILE_VIEW_PROBABILITY.
BeginAction(tk, sts, t, view) ==
    LET c     == SchedulerCheck(tk.kind, tk.context.account_id, tk.context.platform, sts, t)
        fresh == [tk EXCEPT !.sleeps = 0, !.driver_calls = 0, !.records = 0]
        first == IF tk.kind = "dm" THEN "typing"
                 ELSE IF tk.kind = "follow" /\ view THEN "view" ELSE "delay"
        o     == IF c.called /\ Denied(c.ret)
                 THEN Completed(fresh, c.states,
                                ActionLog(tk.kind, tk.targets[tk.i], "rate_limited",
                                          Message(c.ret.reason, c.ret.a, c.ret.b)), t)
                 ELSE Out([fresh EXCEPT !.pc = first, !.since = t, !.sleeps = 1],
                          c.states, "none", NoRet, NoLog, fresh)
    IN  [o EXCEPT !.checked = c.called, !.check = c.ret]

\* The coroutine goes on after the await it is suspended in, at time t.
ResumeAction(tk, sts, t, view, outcome) ==
    CASE tk.pc = "view" ->
            Out([tk EXCEPT !.pc = "delay", !.since = t, !.sleeps = @ + 1],
                sts, "none", NoRet, NoLog, tk)
      [] tk.pc \in {"delay", "typing"} ->
            Out([tk EXCEPT !.pc = "driver", !.since = t, !.driver_calls = @ + 1],
                sts, "none", NoRet, NoLog, tk)
      [] tk.pc = "driver" ->
            LET account_id == tk.context.account_id
                recorded   == outcome = "true" /\ RecordsSuccess(tk.kind)
                sts1 == IF recorded /\ account_id \in DOMAIN sts
                        THEN [sts EXCEPT ![account_id] = record_action(@, tk.kind, TRUE, t)]
                        ELSE sts
                tk1  == IF recorded THEN [tk EXCEPT !.records = @ + 1] ELSE tk
                log  == CASE outcome = "true" ->
                               ActionLog(tk.kind, tk.targets[tk.i], "success", NoMessage)
                          [] outcome = "false" ->
                               ActionLog(tk.kind, tk.targets[tk.i], "failed",
                                         IF tk.kind = "unfollow" THEN NoMessage
                                         ELSE Message("action failed", 0, 0))
                          [] outcome = "raise" ->
                               ActionLog(tk.kind, tk.targets[tk.i], "failed",
                                         Message("str(e)", 0, 0))
            IN  Completed(tk1, sts1, log, t)
      [] tk.pc = "inter" ->
            BeginAction([tk EXCEPT !.i = @ + 1], sts, t, view)

NewTask(kind, batch, context, targets) ==
    [kind |-> kind, batch |-> batch, context |-> context, targets |-> targets,
     i |-> 1, pc |-> "call", since |-> 0,
     result |-> [BatchExecutionResult(Len(targets)) EXCEPT !.status = "running"],
     sleeps |-> 0, driver_calls |-> 0, records |-> 0, stopped |-> FALSE]

\* The note a step of a coroutine leaves about itself.
StepNote(op, tk, o, invoked, t) ==
    [op |-> op, kind |-> tk.kind, batch |-> tk.batch,
     account |-> tk.context.account_id, targets |-> tk.targets,
     before |-> account_states, at |-> t,
     checked |-> o.checked, check |-> o.check,
     returns |-> o.returns, log |-> o.log,
     sleeps |-> o.sleeps, driver_calls |-> o.driver_calls,
     records |-> o.records, i |-> o.i,
     stopped |-> tk.stopped, invoked_driver |-> invoked,
     recorded |-> (tk.pc = "driver" /\ o.records > tk.records)]

\* What the step of a coroutine leaves in the variables; `stopped` and
\* `invoked_driver` tell whether stop_session had been called on the suspended
\* coroutine before the step, and whether the step called _perform_*_action.
Leaves(op, tk, o, invoked, t) ==
    /\ now' = t
    /\ task' = o.task
    /\ account_states' = o.states
    /\ ret' = o.ret
    /\ lastOp' = StepNote(op, tk, o, invoked, t)
    /\ calls' = IF tk.pc = "call" THEN calls + 1 ELSE calls
    /\ UNCHANGED <<checked, successes, active_contexts, browser_sessions, next_context, peer,
                   followVars, proxyVars, spinVars, convVars, queueVars, sweepVars, tzVars>>

\* execute_follow / execute_unfollow / execute_dm(context, target), called
\* with the context of the account's active session.
ExecuteAction(kind, acc, target, view) ==
    /\ task = NoTask
    /\ calls < MaxCalls
    /\ acc \in DOMAIN active_contexts
    /\ LET tk == NewTask(kind, FALSE, active_contexts[acc], <<target>>)
       IN  Leaves("execute", tk, BeginAction(tk, account_states, now, view), FALSE, now)

\* execute_batch_follow / execute_batch_dm(task_id, account_id, targets)
ExecuteBatch(kind, acc, targets, view) ==
    /\ task = NoTask
    /\ calls < MaxCalls
    /\ IF acc \notin DOMAIN active_contexts
       THEN LET tk == NewTask(kind, TRUE, [NoContext EXCEPT !.account_id = acc], targets)
                failed == [BatchExecutionResult(Len(targets)) EXCEPT
                              !.status = "failed",
                              !.error_message = "No active session for account"]
            IN  Leaves("execute_batch", tk,
                       Out(NoTask, account_states, "batch", failed, NoLog, tk), FALSE, now)
       ELSE LET tk == NewTask(kind, TRUE, active_contexts[acc], targets)
            IN  IF targets = << >>
                THEN Leaves("execute_batch", tk,
                            Out(NoTask, account_states, "batch",
                                [tk.result EXCEPT !.status = "completed"], NoLog, tk),
                            FALSE, now)
                ELSE Leaves("execute_batch", tk,
                            BeginAction(tk, account_states, now, view), FALSE, now)

\* The sleep or the driver call the coroutine is suspended in ends.
Resume(view, outcome) ==
    /\ task # NoTask
    /\ \E seconds \in SleepSeconds(task.pc, task.kind) :
          LET t == IF task.since + seconds > now THEN task.since + seconds ELSE now
          IN  Leaves("resume", task, ResumeAction(task, account_states, t, view, outcome),
                     task.pc \in {"delay", "typing"}, t)

\* The one session the coroutines of a run work in.
OpenSession(acc) ==
    /\ next_context = 0
    /\ StartSession(acc, "p1", "started")

\* The account is put in cooling between two targets of a batch.
CoolDuringBatch(acc, duration_minutes) ==
    /\ task # NoTask
    /\ task.pc = "inter"
    /\ acc \in DOMAIN account_states
    /\ ~account_states[acc].is_cooling
    /\ SetCooling(acc, duration_minutes)

\* Sessions are started and stopped.
SessionNext ==
    \/ Tick(ExecTimes)
    \/ \E acc \in Accounts, p \in Profiles, outcome \in StartOutcomes :
          StartSession(acc, p, outcome)
    \/ \E acc \in Accounts : StopSession(acc)

SpecSession == Init /\ [][SessionNext]_vars

\* Single follows, unfollows and DMs in one session, which may be stopped.
ExecNext ==
    \/ \E acc \in Accounts : RegisterAccount(acc, "new")
    \/ Tick(ExecTimes)
    \/ \E acc \in Accounts : OpenSession(acc)
    \/ \E acc \in Accounts : StopSession(acc)
    \/ \E kind \in {"follow", "unfollow", "dm"}, acc \in Accounts, view \in BOOLEAN :
          ExecuteAction(kind, acc, ExecTargets[1], view)
    \/ \E view \in BOOLEAN, outcome \in DriverOutcomes : Resume(view, outcome)

SpecExec == Init /\ [][ExecNext]_vars

\* The one batch of a run.
OneBatch(kind, acc, targets, view) ==
    /\ calls = 0
    /\ ExecuteBatch(kind, acc, targets, view)

\* A batch of follows or DMs in one session.
BatchNext ==
    \/ \E acc \in Accounts : RegisterAccount(acc, "new")
    \/ \E acc \in Accounts : OpenSession(acc)
    \/ \E acc \in Accounts, d \in CoolingMinutes : CoolDuringBatch(acc, d)
    \/ \E kind \in {"follow", "dm"}, acc \in Accounts, targets \in TargetLists,
          view \in BOOLEAN :
          OneBatch(kind, acc, targets, view)
    \/ \E view \in BOOLEAN, outcome \in DriverOutcomes : Resume(view, outcome)

SpecBatch == Init /\ [][BatchNext]_vars

-----------------------------------------------------------------------------
(* Claims about the automation executor *)

\* The steps of the execute_* coroutines.
ExecOps == {"execute", "execute_batch", "resume"}

\* The last step was a follow or DM whose can_execute_action denied it.
DeniedStep ==
    /\ lastOp.op \in ExecOps
    /\ lastOp.kind \in {"follow", "dm"}
    /\ lastOp.checked
    /\ ~lastOp.check.allowed

\* The denied action returned a rate_limited log with the reason of the
\* denial, in the step of the check: no sleep, no driver call, no record.
ShortCircuited ==
    /\ lastOp.log.result = "rate_limited"
    /\ lastOp.log.action_type = lastOp.kind
    /\ lastOp.log.error_message =
          Message(lastOp.check.reason, lastOp.check.a, lastOp.check.b)
    /\ lastOp.sleeps = 0
    /\ lastOp.driver_calls = 0
    /\ lastOp.records = 0
    /\ ~lastOp.invoked_driver
    /\ ~lastOp.recorded
    /\ ~lastOp.batch => ( task = NoTask /\ ret = lastOp.log )

\* C15 as stated: when can_execute denies a follow or DM, a rate_limited
\* ActionLog with the reason is returned without driver call, delay or record,
\* and the counters and last_action_at of the account are unchanged.
C15_DeniedLeavesCounters ==
    DeniedStep =>
        /\ ShortCircuited
        /\ lastOp.account \in DOMAIN lastOp.before =>
              LET old == lastOp.before[lastOp.account]
                  new == account_states[lastOp.account]
              IN  /\ new.hourly_actions = old.hourly_actions
                  /\ new.daily_actions = old.daily_actions
                  /\ new.last_action_at = old.last_action_at

\* C15, amended: when can_execute denies a follow or DM, a rate_limited
\* ActionLog with the reason is returned without driver call, delay or record;
\* last_action_at is unchanged and no counter is incremented: a counter
\* changes only by being reset to zero when its window has passed.
C15_DeniedShortCircuits ==
    DeniedStep =>
        /\ ShortCircuited
        /\ lastOp.account \in DOMAIN lastOp.before =>
              LET old == lastOp.before[lastOp.account]
                  new == account_states[lastOp.account]
              IN  /\ \A a \in ActionType :
                        /\ new.hourly_actions[a] \in {old.hourly_actions[a], 0}
                        /\ new.daily_actions[a] \in {old.daily_actions[a], 0}
                  /\ new.hourly_actions # old.hourly_actions =>
                        lastOp.at >= old.hourly_reset_at + SecondsPerHour
                  /\ new.daily_actions # old.daily_actions =>
                        lastOp.at >= old.daily_reset_at + SecondsPerDay
                  /\ new.last_action_at = old.last_action_at

\* A DM within the minimum interval of the last one is denied in the first
\* seconds of a new hour.
C15_Witness ==
    /\ DeniedStep
    /\ lastOp.kind = "dm"
    /\ lastOp.check.reason = "Min interval not met"
    /\ ret.result = "rate_limited"
    /\ lastOp.account \in DOMAIN lastOp.before
    /\ lastOp.before[lastOp.account].hourly_actions["dm"] = 1
    /\ account_states[lastOp.account].hourly_actions["dm"] = 0

\* C16: every action completed with result success (follow, unfollow or DM)
\* has called record_action with success = True exactly once.
C16_SuccessRecordedOnce ==
    ( lastOp.op \in ExecOps /\ lastOp.log.result = "success" ) => lastOp.records = 1

\* The same, for follows and DMs.
C16_FollowDmRecordedOnce ==
    ( lastOp.op \in ExecOps /\ lastOp.kind \in {"follow", "dm"}
      /\ lastOp.log.result = "success" ) => lastOp.records = 1

\* C20: a follow or DM suspended in a humanization, typing or inter-action
\* delay when stop_session is called does not invoke the driver and does not
\* call record afterwards, and leaves the counters of the account alone.
C20_StopCancels ==
    ( lastOp.op = "resume" /\ lastOp.kind \in {"follow", "dm"} /\ lastOp.stopped ) =>
        /\ ~lastOp.invoked_driver
        /\ ~lastOp.recorded
        /\ account_states = lastOp.before

\* C19: start_session for an account with an active session returns the
\* existing context and starts no second browser session; an account has at
\* most one active context and at most one started browser session.
C19_OneSessionPerAccount ==
    /\ ( lastOp.op = "start_session" /\ lastOp.was_active ) =>
          ( ret = lastOp.existing /\ ~lastOp.start_requested )
    /\ \A acc \in Accounts :
          /\ Cardinality({ a \in DOMAIN active_contexts : a = acc }) <= 1
          /\ Cardinality(SessionsOf(acc)) <= 1

\* The part of C19 the dict of contexts gives: one active context per account,
\* the one the last start_session returned.
C19_OneActiveContext ==
    lastOp.op = "start_session" =>
        /\ lastOp.account \in DOMAIN active_contexts
        /\ active_contexts[lastOp.account] = ret

\* C17: a batch takes its targets in list order and stops at the first
\* rate_limited one: that target is the last one attempted and logged, the
\* status is rate_limited and rate_limited = 1.
C17_StopsAtFirstRateLimited ==
    ( lastOp.op \in ExecOps /\ lastOp.returns = "batch" ) =>
        LET logs == ret.action_logs
        IN  /\ Len(logs) <= Len(lastOp.targets)
            /\ \A j \in 1 .. Len(logs) : logs[j].target_id = lastOp.targets[j]
            /\ lastOp.log.result # "none" => lastOp.i = Len(logs)
            /\ \A j \in 1 .. Len(logs) :
                  logs[j].result = "rate_limited" =>
                      /\ j = Len(logs)
                      /\ ret.status = "rate_limited"
                      /\ ret.rate_limited = 1
            /\ ret.status = "rate_limited" =>
                  ( Len(logs) > 0 /\ logs[Len(logs)].result = "rate_limited" )

\* A batch of DMs is stopped by the hourly limit after three successes, with a
\* target left.
C17_Witness ==
    /\ lastOp.op = "resume"
    /\ lastOp.returns = "batch"
    /\ ret.status = "rate_limited"
    /\ ret.rate_limited = 1
    /\ ret.successful >= 2
    /\ Len(ret.action_logs) >= 3
    /\ lastOp.check.reason \in {"Hourly limit reached", "Account cooling until"}

\* C18: a failed target does not stop a batch, and when the batch returns
\* successful + failed + skipped + rate_limited is the number of action logs,
\* which is at most total_actions.
C18_FailuresDoNotStop ==
    /\ ( lastOp.op \in ExecOps /\ lastOp.batch /\ lastOp.log.result = "failed"
         /\ lastOp.i < Len(lastOp.targets) ) =>
            ( lastOp.returns = "none" /\ task # NoTask /\ task.pc = "inter" )
    /\ ( lastOp.op \in ExecOps /\ lastOp.returns = "batch" ) =>
          LET logs == ret.action_logs
          IN  /\ ret.successful + ret.failed + ret.skipped + ret.rate_limited = Len(logs)
              /\ Len(logs) <= ret.total_actions
              /\ ret.total_actions = Len(lastOp.targets)
              /\ ( ret.status = "completed" ) => Len(logs) = ret.total_actions

\* A batch whose first target failed in the driver and whose second raised
\* goes on to its last target and completes.
C18_Witness ==
    /\ lastOp.op = "resume"
    /\ lastOp.returns = "batch"
    /\ ret.status = "completed"
    /\ ret.total_actions = MaxTargets
    /\ ret.failed >= 2
    /\ ret.successful >= 1
    /\ ret.action_logs[1].result = "failed"
    /\ ret.action_logs[2].error_message = Message("str(e)", 0, 0)
    /\ ret.action_logs[Len(ret.action_logs)].result = "success"


-----------------------------------------------------------------------------
(* Timeout sweep and probe spacing of the follow-back detector *)

\* C21: after process_timeouts for an account, no relationship of that account
\* whose timeout deadline has passed is left in status following or pending:
\* the sweep moved it to not_following.
C21_TimeoutSweepsPending ==
    lastOp.op = "process_timeouts" =>
        \A id \in DOMAIN relationships :
            (/\ relationships[id].sub_account_id = lastOp.account
             /\ relationships[id].timeout_at # NoTime
             /\ relationships[id].timeout_at <= now) =>
                relationships[id].status \notin {"following", "pending"}

\* C22: a step that probes a relationship probed before (its check_count grows
\* and it carries a last_checked_at) happens at least the minimum check interval
\* after the probe before it.
C22_ProbesSpaced ==
    [][ \A id \in DOMAIN relationships :
            (/\ id \in DOMAIN relationships'
             /\ relationships'[id].check_count > relationships[id].check_count
             /\ relationships[id].last_checked_at # NoTime) =>
                now - relationships[id].last_checked_at
                    >= MIN_CHECK_INTERVAL_HOURS * SecondsPerHour ]_vars

-----------------------------------------------------------------------------
(* Health history of a proxy *)

MaxHealthChecks == 4

HealthNext ==
    \/ Tick(ProxyTimes)
    \/ \E id \in ProxyIds : AddProxy(id, ProxyCountry[id])
    \/ \E id \in ProxyIds, healthy \in BOOLEAN, elapsed \in ElapsedMs :
          CheckProxyHealthWithin(id, healthy, elapsed, MaxHealthChecks)
    \/ \E id \in ProxyIds : MarkProxyBanned(id)

SpecHealth == Init /\ [][HealthNext]_vars

\* C23: a failed health check of a proxy that directly follows a successful
\* health check of the same proxy is the first failure of a new run, and does
\* not put the proxy into cooling.
C23_SuccessRestartsCount ==
    [][ (/\ lastOp.op = "check_proxy_health"
         /\ ret.is_healthy
         /\ lastOp'.op = "check_proxy_health"
         /\ lastOp'.proxy_id = lastOp.proxy_id
         /\ ~ret'.is_healthy
         /\ lastOp.proxy_id \in DOMAIN proxies') =>
            proxies'[lastOp.proxy_id].status # "cooling" ]_vars

\* The calls that C24 names: health checks, availability reads, assign, release
\* and rotate.
BanKeepingOps ==
    {"check_proxy_health", "get_available_proxies", "get_best_proxy", "get_random_proxy",
     "assign_proxy_to_account", "get_account_proxy", "release_account_proxy",
     "rotate_account_proxy"}

\* C24: a proxy whose status is banned is still banned after every health check,
\* availability read, assign, release or rotate call.
C24_BannedStaysBanned ==
    [][ lastOp'.op \in BanKeepingOps =>
            \A id \in DOMAIN proxies :
                (id \in DOMAIN proxies' /\ proxies[id].status = "banned") =>
                    proxies'[id].status = "banned" ]_vars


-----------------------------------------------------------------------------
(* Calls that reference unknown configuration *)

\* C25: can_execute for an action type that has no RateLimitConfig on the given
\* platform does not proceed as if configured: it never answers that the
\* action is allowed.
C25_UnknownConfigFails ==
    (/\ lastOp.op = "can_execute"
     /\ lastOp.account \in DOMAIN account_states
     /\ ~HasConfig(lastOp.platform, lastOp.action)) =>
        ~ret.allowed


-----------------------------------------------------------------------------
(* Failures of the driver and the cooling of the account *)

\* C26: when a batch returns with every one of its MaxTargets actions failed in
\* a row (the driver returned failure or raised each time), the account has been
\* put into cooling.
C26_FailuresCoolAccount ==
    (/\ lastOp.op \in ExecOps
     /\ lastOp.returns = "batch"
     /\ ret.failed = MaxTargets) =>
        /\ account_states[lastOp.account].is_cooling
        /\ account_states[lastOp.account].cooling_until > now


\* C27: when a follow of the executor ends with result success, a relationship
\* for (account, target) is registered with the follow-back detector in status
\* following or pending.
C27_FollowRegistered ==
    (/\ lastOp.op \in ExecOps
     /\ lastOp.kind = "follow"
     /\ lastOp.log.result = "success") =>
        /\ RelId(lastOp.account, lastOp.log.target_id) \in DOMAIN relationships
        /\ relationships[RelId(lastOp.account, lastOp.log.target_id)].status
              \in {"following", "pending"}


-----------------------------------------------------------------------------
(* Sessions of an executor constructed with the proxy pool *)

ProxySessionNext ==
    \/ \E id \in ProxyIds : AddProxy(id, ProxyCountry[id])
    \/ \E id \in ProxyIds : RemoveProxy(id)
    \/ \E acc \in Accounts, id \in ProxyIds \cup {"None"} : AssignProxy(acc, id, "None")
    \/ \E acc \in Accounts : ReleaseAccountProxy(acc)
    \/ \E acc \in Accounts, p \in Profiles, outcome \in StartOutcomes :
          StartSessionWith(acc, p, outcome, TRUE)
    \/ \E acc \in Accounts : StopSession(acc)

SpecProxySession == Init /\ [][ProxySessionNext]_vars

\* C28: with a proxy service configured, a start_session that returns a context
\* and stores it as active gave it a proxy: no active context has an empty
\* proxy_config.
C28_NoSessionWithoutProxy ==
    lastOp.op = "start_session" =>
        /\ ret.proxy_config # NoProxyConfig
        /\ \A acc \in DOMAIN active_contexts :
               active_contexts[acc].proxy_config # NoProxyConfig


-----------------------------------------------------------------------------
(* Two execute_* coroutines of one account on the same event loop *)

\* What a step of the second coroutine leaves in the variables.
PeerLeaves(op, tk, o, invoked, t) ==
    /\ now' = t
    /\ peer' = o.task
    /\ account_states' = o.states
    /\ ret' = o.ret
    /\ lastOp' = StepNote(op, tk, o, invoked, t)
    /\ calls' = IF tk.pc = "call" THEN calls + 1 ELSE calls
    /\ UNCHANGED <<checked, successes, active_contexts, browser_sessions, next_context, task,
                   followVars, proxyVars, spinVars, convVars, queueVars, sweepVars, tzVars>>

\* execute_follow / execute_dm(context, target) called while another execute_*
\* coroutine is suspended (asyncio.gather or two tasks of the event loop).
ExecuteConcurrently(kind, acc, target, view) ==
    /\ task # NoTask
    /\ peer = NoTask
    /\ calls < MaxCalls
    /\ acc \in DOMAIN active_contexts
    /\ LET tk == NewTask(kind, FALSE, active_contexts[acc], <<target>>)
       IN  PeerLeaves("execute", tk, BeginAction(tk, account_states, now, view), FALSE, now)

\* The sleep or the driver call the second coroutine is suspended in ends.
ResumePeer(view, outcome) ==
    /\ peer # NoTask
    /\ \E seconds \in SleepSeconds(peer.pc, peer.kind) :
          LET t == IF peer.since + seconds > now THEN peer.since + seconds ELSE now
          IN  PeerLeaves("resume", peer, ResumeAction(peer, account_states, t, view, outcome),
                         peer.pc \in {"delay", "typing"}, t)

ConcurrentNext ==
    \/ \E acc \in Accounts : RegisterAccount(acc, "new")
    \/ Tick(ExecTimes)
    \/ \E acc \in Accounts : OpenSession(acc)
    \/ \E kind \in {"follow", "dm"}, acc \in Accounts, view \in BOOLEAN :
          ExecuteAction(kind, acc, ExecTargets[1], view)
    \/ \E kind \in {"follow", "dm"}, acc \in Accounts, view \in BOOLEAN :
          ExecuteConcurrently(kind, acc, ExecTargets[2], view)
    \/ \E view \in BOOLEAN, outcome \in DriverOutcomes : Resume(view, outcome)
    \/ \E view \in BOOLEAN, outcome \in DriverOutcomes : ResumePeer(view, outcome)

SpecConcurrent == Init /\ [][ConcurrentNext]_vars

\* C29: a step that records a successful follow or dm of an account (the daily
\* counter of the action grows) stays within the age-scaled hourly limit and,
\* when an action of that type was recorded before, comes at least the
\* min-interval of the action after it.
C29_CheckAndRecordAtomic ==
    [][ \A acc \in DOMAIN account_states, a \in {"follow", "dm"} :
            (/\ acc \in DOMAIN account_states'
             /\ account_states'[acc].daily_actions[a] > account_states[acc].daily_actions[a]) =>
                LET config == DEFAULT_LIMITS["instagram"][a]
                IN  /\ account_states'[acc].hourly_actions[a]
                          <= get_limit_for_age(config, account_states[acc].age_category,
                                               "hourly")
                    /\ account_states[acc].last_action_at[a] # NoTime =>
                          now' - account_states[acc].last_action_at[a]
                              >= config.min_interval_seconds ]_vars


-----------------------------------------------------------------------------
(* What record_action changes *)

MaxDirectRecords == 1

RecordAccounts == {"acc1", "acc2"}
RecordedTypes == {"follow", "dm"}
\* The clock readings of the records: the start and one step later.
RecordTimes == {0, Step}

\* record_action(account_id, action_type, success), called for any account,
\* registered or not, with no can_execute_action before it.
RecordAction(acc, action_type, success) ==
    /\ (acc \in DOMAIN account_states /\ success) =>
          account_states[acc].daily_actions[action_type] < MaxDirectRecords
    /\ IF acc \notin DOMAIN account_states
       THEN UNCHANGED <<account_states, checked, successes>>
       ELSE /\ account_states' = [account_states EXCEPT
                   ![acc] = record_action(@, action_type, success, now)]
            /\ checked' = IF acc \in Accounts
                          THEN [checked EXCEPT ![acc][action_type] = NoCheck]
                          ELSE checked
            /\ successes' = IF acc \in Accounts /\ success
                            THEN [successes EXCEPT ![acc][action_type] = @ \cup {now}]
                            ELSE successes
    /\ lastOp' = [op |-> "record_action", account |-> acc, action |-> action_type,
                  success |-> success]
    /\ ret' = NoRet
    /\ UNCHANGED now
    /\ UNCHANGED nonSchedVars

RecordNext ==
    \/ Tick(RecordTimes)
    \/ \E acc \in RecordAccounts : RegisterAccount(acc, "new")
    \/ \E acc \in RecordAccounts, a \in RecordedTypes, success \in BOOLEAN :
          RecordAction(acc, a, success)
    \/ \E acc \in RecordAccounts : SetCooling(acc, 30)

SpecRecord == Init /\ [][RecordNext]_vars

\* What record_action never touches in the state of an account.
SameElsewhere(s, s1, action_type) ==
    /\ \A b \in ActionType \ {action_type} :
          /\ s1.hourly_actions[b] = s.hourly_actions[b]
          /\ s1.daily_actions[b] = s.daily_actions[b]
          /\ s1.last_action_at[b] = s.last_action_at[b]
    /\ s1.hourly_reset_at = s.hourly_reset_at
    /\ s1.daily_reset_at = s.daily_reset_at
    /\ s1.is_cooling = s.is_cooling
    /\ s1.cooling_until = s.cooling_until
    /\ s1.cooling_reason = s.cooling_reason
    /\ s1.age_category = s.age_category

\* C30: record_action with success false changes only last_action_at of the
\* action; with success true it also adds exactly one to the hourly and the
\* daily counter of the action; the other action types, the other accounts,
\* the reset timestamps and the cooling fields stay as they were, and for an
\* unregistered account nothing changes.
C30_RecordFrame ==
    [][ lastOp'.op = "record_action" =>
          LET acc == lastOp'.account
              a   == lastOp'.action
              inc == IF lastOp'.success THEN 1 ELSE 0
          IN  IF acc \notin DOMAIN account_states
              THEN account_states' = account_states
              ELSE /\ DOMAIN account_states' = DOMAIN account_states
                   /\ \A other \in DOMAIN account_states \ {acc} :
                         account_states'[other] = account_states[other]
                   /\ account_states'[acc].last_action_at[a] = now
                   /\ account_states'[acc].hourly_actions[a]
                         = account_states[acc].hourly_actions[a] + inc
                   /\ account_states'[acc].daily_actions[a]
                         = account_states[acc].daily_actions[a] + inc
                   /\ SameElsewhere(account_states[acc], account_states'[acc], a) ]_vars

\* A failed record of a registered, cooling account that has recorded successes
\* of both action types, made after a later record of the other account.
C30_Witness ==
    /\ lastOp.op = "record_action"
    /\ ~lastOp.success
    /\ lastOp.account \in DOMAIN account_states
    /\ DOMAIN account_states = RecordAccounts
    /\ account_states[lastOp.account].is_cooling
    /\ account_states[lastOp.account].hourly_actions[lastOp.action] >= 1
    /\ \E b \in RecordedTypes \ {lastOp.action} :
          account_states[lastOp.account].daily_actions[b] >= 1
    /\ \E other \in RecordAccounts \ {lastOp.account} :
          account_states[other].daily_actions["follow"] = MaxDirectRecords


-----------------------------------------------------------------------------
(* Delay nodes and the clock *)

\* The clock readings of a conversation: half an hour and an hour after its start.
ConvTimes == {SecondsPerHour \div 2, SecondsPerHour}

DelayNext ==
    \/ Tick(ConvTimes)
    \/ \E conv \in Conversations : StartConversation(conv, "standard_outreach")
    \/ \E conv \in Conversations, message \in Messages : ProcessMessage(conv, message)

SpecDelay == Init /\ [][DelayNext]_vars

\* The node a conversation is at, a node of no type when its flow has none.
CurrentNode(state) ==
    IF state.flow_id \in DOMAIN flows /\ state.current_node_id \in DOMAIN flows[state.flow_id].nodes
    THEN flows[state.flow_id].nodes[state.current_node_id]
    ELSE FlowNode("none", "None", FALSE, 0, << >>, "None")

\* C31: a process_message that moves a conversation into a delay node returns
\* should_respond = false, the delay_seconds of the node and no text; a
\* process_message that moves it on from a delay node to the node's
\* default_next comes at least delay_seconds after the delay node was entered.
C31_DelayHoldsNextNode ==
    [][ \A c \in DOMAIN states :
          (/\ lastOp'.op = "process_message"
           /\ lastOp'.conversation = c
           /\ states'[c].current_node_id # states[c].current_node_id) =>
              /\ CurrentNode(states'[c]).node_type = "delay" =>
                    /\ ~ret'.should_respond
                    /\ ret'.delay_seconds = CurrentNode(states'[c]).delay_seconds
                    /\ ret'.response_text = NoText
              /\ (/\ CurrentNode(states[c]).node_type = "delay"
                  /\ states'[c].current_node_id = CurrentNode(states[c]).default_next) =>
                    now - states[c].last_activity >= CurrentNode(states[c]).delay_seconds ]_vars


-----------------------------------------------------------------------------
(* Terminal nodes, the unknown-intent counter and the handoff *)

\* C32: a process_message for a conversation whose current node is a
\* human_handoff node or an end node leaves the conversation at that node and
\* returns no outbound message (should_respond with a text).
C32_TerminalNodesStay ==
    [][ \A c \in DOMAIN states :
          (/\ lastOp'.op = "process_message"
           /\ lastOp'.conversation = c
           /\ CurrentNode(states[c]).node_type \in {"human_handoff", "end"}) =>
              /\ states'[c].current_node_id = states[c].current_node_id
              /\ ~(ret'.should_respond /\ ret'.response_text # NoText) ]_vars

\* C33: process_message returns the forced handoff only when the three latest
\* inbound messages of the conversation in a row were of unknown intent.
C33_ForcedOnlyAfterThreeInARow ==
    ( /\ lastOp.op = "process_message"
      /\ ret.response_text = Text("forced_handoff", "None") ) =>
        unknown_run[lastOp.conversation] >= FailedIntentsLimit

\* C40: the process_message that follows a process_message of the same
\* conversation that returned requires_human = true (the forced handoff or a
\* human_handoff node) does not return an automated response, should_respond
\* = true with requires_human = false.
C40_HandoffSticky ==
    [][ (/\ lastOp.op = "process_message"
         /\ ret.requires_human
         /\ ret.error = "None"
         /\ lastOp'.op = "process_message"
         /\ lastOp'.conversation = lastOp.conversation) =>
            ~(ret'.should_respond /\ ~ret'.requires_human) ]_vars


-----------------------------------------------------------------------------
(* The action queue of the scheduler *)

\* The actions scheduled in a run.
MaxQueue == 2

ActionIds == {"a1", "a2"}
Priorities == {0, 1}
QueueTimes == {0, Step}
Limits == {1, 100}
QueuedTypes == {"follow", "dm"}

\* ScheduledAction(id, action_type, account_id, target_id, scheduled_at, priority)
ScheduledAction(id, action_type, account_id, scheduled_at, priority) ==
    [id |-> id, action_type |-> action_type, account_id |-> account_id,
     scheduled_at |-> scheduled_at, priority |-> priority, status |-> "pending"]

\* The sort key (-priority, scheduled_at) of a is less than that of b.
SortsBefore(a, b) ==
    \/ a.priority > b.priority
    \/ a.priority = b.priority /\ a.scheduled_at < b.scheduled_at

\* _action_queue.append(action) followed by the stable sort of a sorted queue:
\* the action goes in front of the first action it sorts before.
append_and_sort(queue, action) ==
    LET later == { i \in 1 .. Len(queue) : SortsBefore(action, queue[i]) }
        at == IF later = {} THEN Len(queue) + 1
              ELSE CHOOSE i \in later : \A j \in later : i <= j
    IN  SubSeq(queue, 1, at - 1) \o <<action>> \o SubSeq(queue, at, Len(queue))

\* get_pending_actions(account_id, action_type, limit) at time t; "None" is no filter
get_pending_actions(queue, account_id, action_type, limit, t) ==
    LET Ready(a) == a.status = "pending" /\ a.scheduled_at <= t
        OfAccount(a) == account_id = "None" \/ a.account_id = account_id
        OfType(a) == action_type = "None" \/ a.action_type = action_type
        actions == SelectSeq(SelectSeq(SelectSeq(queue, Ready), OfAccount), OfType)
    IN  SubSeq(actions, 1, IF Len(actions) < limit THEN Len(actions) ELSE limit)

\* schedule_action(action_id, action_type, account_id, target_id,
\* scheduled_at=None or a time, priority)
ScheduleAction(id, action_type, acc, scheduled_at, priority) ==
    /\ Len(action_queue) < MaxQueue
    /\ LET action == ScheduledAction(id, action_type, acc,
                         IF scheduled_at = NoTime THEN now ELSE scheduled_at, priority)
       IN  /\ action_queue' = append_and_sort(action_queue, action)
           /\ ret' = [kind |-> "action", actions |-> <<action>>]
    /\ lastOp' = [op |-> "schedule_action", id |-> id]
    /\ UNCHANGED <<now, schedVars, followVars, proxyVars, spinVars, convVars, execVars,
                   sweepVars, tzVars>>

GetPendingActions(acc, action_type, limit) ==
    /\ ret' = [kind |-> "actions",
               actions |-> get_pending_actions(action_queue, acc, action_type, limit, now)]
    /\ lastOp' = [op |-> "get_pending_actions", account |-> acc]
    /\ UNCHANGED <<now, schedVars, nonSchedVars>>

QueueNext ==
    \/ Tick(QueueTimes)
    \/ \E id \in ActionIds, a \in QueuedTypes, acc \in Accounts,
          at \in QueueTimes \cup {NoTime}, priority \in Priorities :
          ScheduleAction(id, a, acc, at, priority)
    \/ \E acc \in Accounts \cup {"None"}, a \in QueuedTypes \cup {"None"}, limit \in Limits :
          GetPendingActions(acc, a, limit)

SpecQueue == Init /\ [][QueueNext]_vars

\* C34: an action that get_pending_actions has returned is no longer pending
\* in the queue, so that no later dequeue returns it again.
C34_DequeuedOnce ==
    lastOp.op = "get_pending_actions" =>
        \A i \in 1 .. Len(ret.actions), j \in 1 .. Len(action_queue) :
            action_queue[j].id = ret.actions[i].id => action_queue[j].status # "pending"


-----------------------------------------------------------------------------
(* process_timeouts of a detector given the executor: its coroutines *)

\* The seconds execute_unfollow takes at least: its humanization sleep and
\* the sleep of the driver.
UnfollowSeconds == MIN_ACTION_DELAY + 1

\* A set of relationships as the list get_timeout_relationships returns; the
\* accounts of the model have one relationship each, so the order among the
\* relationships of an account plays no part.
RECURSIVE ListOf(_)
ListOf(ids) ==
    IF ids = {} THEN << >>
    ELSE LET id == CHOOSE x \in ids : TRUE IN <<id>> \o ListOf(ids \ {id})

\* relationship.status = NOT_FOLLOWING; relationship.unfollow_at = now
MarkUnfollowed(rels, id, t) ==
    [rels EXCEPT ![id] = [@ EXCEPT !.status = "not_following", !.unfollow_at = t]]

\* The loop of process_timeouts from relationship sw.i on, up to its next
\* await or to its return, at time t: with an executor and an active context
\* of the account it awaits execute_unfollow; without, it marks the
\* relationship at once.  `marked` notes each relationship marked and why
\* no unfollow result stood behind it.
RECURSIVE SweepOn(_, _, _, _)
SweepOn(sw, rels, marked, t) ==
    IF sw.i > Len(sw.timeouts)
    THEN [sweep |-> IdleSweep, rels |-> rels, marked |-> marked, returned |-> TRUE,
          unfollowed |-> sw.unfollowed]
    ELSE IF sw.executor /\ sw.account \in DOMAIN active_contexts
    THEN [sweep |-> [sw EXCEPT !.pc = "unfollow", !.since = t], rels |-> rels,
          marked |-> marked, returned |-> FALSE, unfollowed |-> sw.unfollowed]
    ELSE LET id == sw.timeouts[sw.i]
         IN  SweepOn([sw EXCEPT !.i = @ + 1,
                                !.unfollowed = Append(@, rels[id].target_user_id)],
                     MarkUnfollowed(rels, id, t),
                     marked \cup {[rel |-> id,
                                   via |-> IF sw.executor THEN "no session"
                                           ELSE "no executor"]},
                     t)

\* What a step of a process_timeouts coroutine leaves in the variables.
SweepLeaves(s, op, acc, o, t) ==
    /\ now' = t
    /\ sweeps' = [sweeps EXCEPT ![s] = o.sweep]
    /\ relationships' = o.rels
    /\ ret' = IF o.returned THEN [kind |-> "unfollowed", list |-> o.unfollowed]
              ELSE [kind |-> "suspended", list |-> << >>]
    /\ lastOp' = [op |-> op, sweep |-> s, account |-> acc, marked |-> o.marked]
    /\ UNCHANGED <<dm_raised, schedVars, proxyVars, spinVars, convVars, execVars, queueVars,
                   tzVars>>

\* process_timeouts(sub_account_id) is called; executor tells whether the
\* detector was constructed with an automation_executor.
StartSweep(s, acc, executor) ==
    /\ sweeps[s] = IdleSweep
    /\ LET sw == [pc |-> "call", account |-> acc, executor |-> executor,
                  timeouts |-> ListOf(get_timeout_relationships(relationships, acc, now)),
                  i |-> 1, unfollowed |-> << >>, since |-> now]
       IN  SweepLeaves(s, "process_timeouts", acc, SweepOn(sw, relationships, {}, now), now)

\* The execute_unfollow a coroutine awaits returns its ActionLog: success when
\* the driver returned True, failed when it returned False or raised.  The
\* log is dropped and the relationship marked.
ResumeSweep(s, outcome) ==
    /\ sweeps[s].pc = "unfollow"
    /\ LET sw == sweeps[s]
           t  == IF sw.since + UnfollowSeconds > now THEN sw.since + UnfollowSeconds ELSE now
           id == sw.timeouts[sw.i]
           result == IF outcome = "true" THEN "success" ELSE "failed"
       IN  SweepLeaves(s, "resume_sweep", sw.account,
                       SweepOn([sw EXCEPT !.i = @ + 1,
                                          !.unfollowed = Append(@, relationships[id].target_user_id)],
                               MarkUnfollowed(relationships, id, t),
                               {[rel |-> id, via |-> result]}, t),
                       t)

SweepNext ==
    \/ Tick(FollowTimes)
    \/ \E acc \in Accounts, target \in Targets : RegisterFollow(acc, target, FALSE)
    \/ \E acc \in Accounts : OpenSession(acc)
    \/ \E acc \in Accounts : StopSession(acc)
    \/ \E s \in Sweeps, acc \in Accounts, executor \in BOOLEAN : StartSweep(s, acc, executor)
    \/ \E s \in Sweeps, outcome \in DriverOutcomes : ResumeSweep(s, outcome)

SpecSweep == Init /\ [][SweepNext]_vars

\* C35: two process_timeouts coroutines are never both suspended in the
\* execute_unfollow of the same relationship, so that each timed-out
\* relationship is unfollowed through the executor once.
C35_UnfollowedOnce ==
    \A s1 \in Sweeps, s2 \in Sweeps :
        (s1 # s2 /\ sweeps[s1].pc = "unfollow" /\ sweeps[s2].pc = "unfollow") =>
            sweeps[s1].timeouts[sweeps[s1].i] # sweeps[s2].timeouts[sweeps[s2].i]

\* C39: a step of process_timeouts marks a relationship not_following only
\* after an unfollow of its target through the executor that ended with result
\* success.
C39_MarkedOnlyAfterSuccess ==
    lastOp.op \in {"process_timeouts", "resume_sweep"} =>
        \A m \in lastOp.marked : m.via = "success"


-----------------------------------------------------------------------------
(* get_24h_schedule and distribute_tasks_by_timezone.  An instant is the    *)
(* seconds since a midnight UTC of an aware datetime: the loop of           *)
(* get_24h_schedule keeps the seconds of from_time in every datetime it     *)
(* builds, and compares them with the window boundaries.                    *)

\* The slots a call collects in the model; the list of the source has no bound.
MaxSlots == 12

HalfHour == 30 * SecondsPerMinute

\* The time of day, in seconds, of an instant in a zone
LocalTimeOfDay(instant, tz) == (instant + UtcOffset(tz) * SecondsPerMinute) % SecondsPerDay

\* TimezoneWindow.is_active_at for an instant with seconds: both ends inclusive
is_active_at_second(window, instant) ==
    LET local_time == LocalTimeOfDay(instant, window.timezone)
        start_time == window.start_time * SecondsPerMinute
        end_time   == window.end_time * SecondsPerMinute
    IN  IF start_time <= end_time
        THEN start_time <= local_time /\ local_time <= end_time
        ELSE local_time >= start_time \/ local_time <= end_time

\* local_current.replace(hour=end_time.hour, minute=end_time.minute), a day
\* later when the window crosses midnight, as an instant: the seconds of
\* current stay.
local_end(window, current) ==
    LET tod == LocalTimeOfDay(current, window.timezone)
        replaced == (current - tod) + window.end_time * SecondsPerMinute
                        + (tod % SecondsPerMinute)
    IN  IF window.end_time > window.start_time THEN replaced
        ELSE replaced + SecondsPerDay

ScheduledSlot(start_utc, end_utc, timezone, region) ==
    [start_utc |-> start_utc, end_utc |-> end_utc, timezone |-> timezone, region |-> region]

duration_minutes(slot) == (slot.end_utc - slot.start_utc) \div SecondsPerMinute

\* One evaluation of the loop conditions of get_24h_schedule and, when they
\* hold, one pass through the body of the while loop.
scan_step(sc) ==
    LET end_time == sc.from_time + SecondsPerDay
    IN  IF sc.regions[sc.r] \notin DOMAIN region_schedules
        THEN [sc EXCEPT !.r = @ + 1, !.w = 1, !.current = sc.from_time]
        ELSE LET windows == region_schedules[sc.regions[sc.r]]
             IN  IF sc.w > Len(windows)
                 THEN [sc EXCEPT !.r = @ + 1, !.w = 1, !.current = sc.from_time]
                 ELSE IF ~(sc.current < end_time)
                 THEN [sc EXCEPT !.w = @ + 1, !.current = sc.from_time]
                 ELSE IF is_active_at_second(windows[sc.w], sc.current)
                 THEN LET ends == local_end(windows[sc.w], sc.current)
                          slot_end == IF ends < end_time THEN ends ELSE end_time
                      IN  [sc EXCEPT
                             !.slots = Append(@, ScheduledSlot(sc.current, slot_end,
                                                  windows[sc.w].timezone, sc.regions[sc.r])),
                             !.current = ends]
                 ELSE [sc EXCEPT !.current = @ + HalfHour]

\* slots.sort(key=start_utc): the sort is stable
InsertSlot(sorted, slot) ==
    LET later == { i \in 1 .. Len(sorted) : slot.start_utc < sorted[i].start_utc }
        at == IF later = {} THEN Len(sorted) + 1
              ELSE CHOOSE i \in later : \A j \in later : i <= j
    IN  SubSeq(sorted, 1, at - 1) \o <<slot>> \o SubSeq(sorted, at, Len(sorted))

RECURSIVE SortSlots(_)
SortSlots(slots) ==
    IF slots = << >> THEN << >>
    ELSE InsertSlot(SortSlots(SubSeq(slots, 1, Len(slots) - 1)), slots[Len(slots)])

RECURSIVE TotalMinutes(_)
TotalMinutes(slots) ==
    IF slots = << >> THEN 0 ELSE duration_minutes(Head(slots)) + TotalMinutes(Tail(slots))

\* The loop of distribute_tasks_by_timezone over the slots from slot k on.
\* A task time is kept in whole seconds.
RECURSIVE DistributeFrom(_, _, _, _, _)
DistributeFrom(slots, k, task_count, total_minutes, tasks_remaining) ==
    IF k > Len(slots) \/ tasks_remaining <= 0 THEN << >>
    ELSE LET slot == slots[k]
             share == (task_count * duration_minutes(slot)) \div total_minutes
             atLeastOne == IF share < 1 THEN 1 ELSE share
             slot_tasks == IF atLeastOne < tasks_remaining THEN atLeastOne
                           ELSE tasks_remaining
             slot_duration == slot.end_utc - slot.start_utc
         IN  [ i \in 1 .. slot_tasks |->
                 [time |-> slot.start_utc + (slot_duration * i) \div (slot_tasks + 1),
                  region |-> slot.region] ]
             \o DistributeFrom(slots, k + 1, task_count, total_minutes,
                               tasks_remaining - slot_tasks)

\* distribute_tasks_by_timezone once get_24h_schedule has returned `slots`
distribute_tasks(task_count, target_regions, start_time, slots) ==
    IF slots = << >>
    THEN IF task_count = 0 THEN [kind |-> "raise", tasks |-> << >>, slots |-> slots]
         ELSE [kind |-> "tasks", slots |-> slots,
               tasks |-> [ i \in 1 .. task_count |->
                   [time |-> start_time + (SecondsPerDay * (i - 1)) \div task_count,
                    region |-> target_regions[((i - 1) % Len(target_regions)) + 1]] ]]
    ELSE IF TotalMinutes(slots) = 0
    THEN [kind |-> "tasks", slots |-> slots, tasks |-> << >>]
    ELSE [kind |-> "tasks", slots |-> slots,
          tasks |-> DistributeFrom(slots, 1, task_count, TotalMinutes(slots), task_count)]

\* The calls made: region lists with and without a schedule, from_time in UTC
\* on and off the half-hour grid, with and without seconds.
ScheduleRegionLists == { <<"JP">>, <<"UK", "JP">>, <<"XX">> }
ScheduleFromTimes ==
    { SecondsPerDay + h * SecondsPerHour + m * SecondsPerMinute + sec :
        h \in {1, 8, 22}, m \in {0, 10}, sec \in {0, 5} }
TaskCounts == {1, 3, 5}

\* get_24h_schedule(target_regions, from_time) is called, by the caller of
\* the service (task_count "None") or by distribute_tasks_by_timezone.
StartSchedule(target_regions, from_time, task_count) ==
    /\ scan = NoScan
    /\ scan' = [pc |-> "scan", regions |-> target_regions, from_time |-> from_time,
                task_count |-> task_count, r |-> 1, w |-> 1, current |-> from_time,
                slots |-> << >>]
    /\ lastOp' = [op |-> "call_schedule", target_regions |-> target_regions,
                  from_time |-> from_time, task_count |-> task_count]
    /\ ret' = [kind |-> "running", tasks |-> << >>, slots |-> << >>]
    /\ UNCHANGED <<now, schedVars, followVars, proxyVars, spinVars, convVars, execVars,
                   queueVars, sweepVars>>

\* The call goes once round its loop.
ScanStep ==
    /\ scan # NoScan
    /\ scan.r <= Len(scan.regions)
    /\ Len(scan.slots) < MaxSlots
    /\ scan' = scan_step(scan)
    /\ lastOp' = [op |-> "scan_step", target_regions |-> scan.regions,
                  from_time |-> scan.from_time, task_count |-> scan.task_count]
    /\ UNCHANGED <<now, ret, schedVars, followVars, proxyVars, spinVars, convVars, execVars,
                   queueVars, sweepVars>>

\* The loops are done: the slots are sorted and returned, or distributed.
ScheduleReturns ==
    /\ scan # NoScan
    /\ scan.r > Len(scan.regions)
    /\ scan' = NoScan
    /\ lastOp' = [op |-> IF scan.task_count = NoTime THEN "get_24h_schedule"
                         ELSE "distribute_tasks_by_timezone",
                  target_regions |-> scan.regions, from_time |-> scan.from_time,
                  task_count |-> scan.task_count]
    /\ ret' = IF scan.task_count = NoTime
              THEN [kind |-> "slots", tasks |-> << >>, slots |-> SortSlots(scan.slots)]
              ELSE distribute_tasks(scan.task_count, scan.regions, scan.from_time,
                                    SortSlots(scan.slots))
    /\ UNCHANGED <<now, schedVars, followVars, proxyVars, spinVars, convVars, execVars,
                   queueVars, sweepVars>>

ScheduleNext ==
    \/ \E target_regions \in ScheduleRegionLists, from_time \in ScheduleFromTimes,
          task_count \in TaskCounts \cup {NoTime} :
          StartSchedule(target_regions, from_time, task_count)
    \/ ScanStep
    \/ ScheduleReturns

SpecSchedule == Init /\ [][ScheduleNext]_vars

\* C36: every round of the loop of get_24h_schedule advances the scan: it
\* moves to a later region or window, or moves `current` forward within the
\* window, so that the scan of each window over the 24 hours ends.
C36_ScanAdvances ==
    [][ (scan.pc = "scan" /\ scan'.pc = "scan") =>
           \/ scan'.r > scan.r
           \/ scan'.r = scan.r /\ scan'.w > scan.w
           \/ scan'.r = scan.r /\ scan'.w = scan.w /\ scan'.current > scan.current ]_vars

\* C37: when the schedule has a slot of positive duration,
\* distribute_tasks_by_timezone(N, regions) returns N entries, each with a time
\* inside a slot of its region.
C37_DistributesAllTasks ==
    ( /\ lastOp.op = "distribute_tasks_by_timezone"
      /\ \E k \in 1 .. Len(ret.slots) : ret.slots[k].end_utc > ret.slots[k].start_utc ) =>
        /\ Len(ret.tasks) = lastOp.task_count
        /\ \A i \in 1 .. Len(ret.tasks) :
              \E k \in 1 .. Len(ret.slots) :
                 /\ ret.slots[k].region = ret.tasks[i].region
                 /\ ret.slots[k].start_utc <= ret.tasks[i].time
                 /\ ret.tasks[i].time <= ret.slots[k].end_utc


-----------------------------------------------------------------------------
(* The two assignment records of the pool, with two accounts *)

PoolAccounts == {"acc1", "acc2"}

AssignNext ==
    \/ \E id \in ProxyIds : AddProxy(id, ProxyCountry[id])
    \/ \E id \in ProxyIds : RemoveProxy(id)
    \/ \E acc \in PoolAccounts, id \in ProxyIds \cup {"None"} : AssignProxy(acc, id, "None")
    \/ \E acc \in PoolAccounts : ReleaseAccountProxy(acc)
    \/ \E acc \in PoolAccounts : RotateAccountProxy(acc, "None")

SpecAssign == Init /\ [][AssignNext]_vars

\* C38: after any sequence of add_proxy, assign, release, rotate and
\* remove_proxy, no proxy is the proxy of two accounts in the account-to-proxy
\* map, and the map sends account a to proxy p exactly when p's
\* assigned_to_account_id is a.
C38_AssignmentRecordsAgree ==
    /\ \A a1 \in DOMAIN account_proxy_map, a2 \in DOMAIN account_proxy_map :
          account_proxy_map[a1] = account_proxy_map[a2] => a1 = a2
    /\ \A a \in PoolAccounts, p \in DOMAIN proxies :
          (a \in DOMAIN account_proxy_map /\ account_proxy_map[a] = p)
             <=> proxies[p].assigned_to_account_id = a
====
